---- MODULE Spec2Model ----
(***************************************************************************)
(* Model of the reload-proof scorekeeping application                      *)
(* (src/InternalDraftLeague.js): the localStorage persistence layer        *)
(* (PersistenceManager), the session state (DataManager), the match clock  *)
(* (TimerManager), the seconds countdown (SecondsTimerManager) and the       *)
(* handlers of ScorekeeperApp.                                             *)
(*                                                                         *)
(* Values.  A JavaScript value that may be null is a sequence of length    *)
(* at most one: << >> is null/undefined, <<v>> is the value v.  A          *)
(* localStorage item is again a sequence: << >> is a missing key, <<j>>    *)
(* is the key holding the JSON text of j, and the two longer sequences     *)
(* NotJson and EmptyText are a key holding text that JSON.parse rejects    *)
(* and a key holding the empty text.  Times are milliseconds counted from  *)
(* a whole second of the wall clock.                                       *)
(***************************************************************************)
EXTENDS Integers, Sequences, FiniteSets, TLC

VARIABLES
  now,        \* Date.now()
  store,      \* localStorage: key -> item
  storeFull,  \* the storage quota is exhausted: setItem may throw
  timer,      \* the TimerManager instance, and the text of #timerDisplay (display)
  secondsTimer, \* the SecondsTimerManager instance, and the text of #timerDisplaySec
  dm,         \* the DataManager instance
  app,        \* the ScorekeeperApp instance and the page elements it reads and writes
  phase,      \* how far the page has come: "constructed", "loading", "ready"
  exports,    \* the handleSubmitScore() calls waiting for submitScores()
  events,     \* how many events of the scoring session have happened
  started,    \* history: << >> or <<[at, dur]>>, the start() the clock runs from
  last        \* history: the last handler or call, and what it returned

vars == <<now, store, storeFull, timer, secondsTimer, dm, app, phase, exports, events, started, last>>

timerVars == <<timer, started, secondsTimer>>
dataVars == <<dm>>
appVars == <<app, phase, exports, events>>

----------------------------------------------------------------------------
(* CONFIG and other program constants *)

DEFAULT_TIMER_MINUTES == 100
MsPerSecond == 1000
MinuteMs == 60 * 1000
DayMs == 24 * 60 * 60 * 1000
WeekMs == 7 * 24 * 60 * 60 * 1000

STORAGE_KEYS ==
  [SCORE_LOGS |-> "scoreLogs", TIMER_END_TIME |-> "timerEndTime",
   TIMER_RUNNING |-> "timerRunning", GAME_STATE |-> "gameState",
   TEAMS_DATA |-> "teamsData", LAST_SAVE |-> "lastSave"]

\* every key the application reads or writes
StoreKeys ==
  {"scoreLogs", "timerEndTime", "timerRunning", "gameState", "teamsData",
   "lastSave", "timerRemainingTime"}

----------------------------------------------------------------------------
(* Bounds of the model *)

\* events happen at the clock readings h half-minutes and 0 or 500 ms after
\* the start, h up to this many
MaxHalfMinutes == 3

\* the clock reading when the page is first opened: a whole second
Epoch == 1 * 1000

\* the clock readings at which an event can happen
Instants == {Epoch + h * 30000 + f : h \in 0..MaxHalfMinutes, f \in {0, 500}}

\* what the user types into the countdown-minutes field (0: empty or zero)
MinutesInputs == {0, 1, -1}

\* a scoring session is looked at on its first day and on up to this many
\* later days
MaxDaysAway == 1

\* the clock readings at which the page is opened: the start, the same time
\* of day on the later days, and eight days after the start
OpeningInstants ==
  {Epoch} \cup {Epoch + d * DayMs : d \in 1..MaxDaysAway} \cup {Epoch + WeekMs + DayMs}

\* the clock readings of the scoring session: when the page is opened, and an
\* auto-save interval after the first opening
SessionInstants == OpeningInstants \cup {Epoch + 2000}

\* the most entries the score log holds in a scoring session
MaxLog == 2

\* the most handleSubmitScore() calls waiting for submitScores() at a time
MaxExports == 1

\* a scoring session is followed for this many events: page loads, settled
\* requests, auto-saves and clicks
MaxEvents == 9

\* the teams of the roster, the players the user picks in the popup (Players
\* when a point is edited, NewScorers when it is added), the assist choices
TeamNames == {"X", "Y"}
Players == {"p", "q"}
NewScorers == {"p"}
AssistOptions == {"N/A"}

\* how fetchTeams() settles: it throws (null) or gives the roster
FetchResults == {<< >>, <<TeamNames>>}

----------------------------------------------------------------------------
(* JavaScript values *)

Null == << >>
Some(v) == <<v>>
IsNull(j) == j = << >>
Val(j) == j[1]

Absent == << >>
Item(j) == <<j>>

\* a key holding text that is no JSON, and a key holding the empty text
NotJson == <<Null, Null>>
EmptyText == <<Null, Null, Null>>

\* JavaScript truthiness of a nullable number
TruthyNum(j) == ~IsNull(j) /\ Val(j) # 0

Max(a, b) == IF a >= b THEN a ELSE b

----------------------------------------------------------------------------
(* PersistenceManager *)

EmptyStore == [k \in StoreKeys |-> Absent]

\* a loadFromStorage() that hands out whatever JSON.parse makes of the text,
\* null for text it rejects
loadFromStorage_uncaught(st, key, fallback) ==
  IF st[key] = Absent THEN fallback
  ELSE IF st[key] \in {NotJson, EmptyText} THEN Null
  ELSE st[key][1]

\* loadFromStorage(key, fallback): getItem gives null for a missing key, the
\* empty text is falsy, and what JSON.parse throws is caught
loadFromStorage(st, key, fallback) ==
  IF st[key] = Absent \/ st[key] = EmptyText THEN fallback
  ELSE IF st[key] = NotJson THEN fallback
  ELSE st[key][1]

\* cleanupOldData(): drop the expired roster cache and a snapshot older than 7 days
cleanupOldData(st, nw) ==
  LET teamsData == loadFromStorage(st, STORAGE_KEYS.TEAMS_DATA, Null)
      st1 == IF ~IsNull(teamsData) /\ nw > Val(teamsData).expiresAt
               THEN [st EXCEPT ![STORAGE_KEYS.TEAMS_DATA] = Absent]
               ELSE st
      gameState == loadFromStorage(st1, STORAGE_KEYS.GAME_STATE, Null)
  IN IF /\ ~IsNull(gameState)
        /\ Val(gameState).timestamp # 0
        /\ (nw - Val(gameState).timestamp) > WeekMs
       THEN [st1 EXCEPT ![STORAGE_KEYS.GAME_STATE] = Absent]
       ELSE st1

\* a saveToStorage() that gives up when its try block throws: no
\* cleanupOldData(), no second setItem
saveToStorage_noRetry(st, key, data, nw, att) ==
  LET written == [st EXCEPT ![key] = Item(data)]
      afterTry == IF att[1] THEN written ELSE st
  IN IF att[1] /\ att[2]
       THEN [store |-> [written EXCEPT ![STORAGE_KEYS.LAST_SAVE] = Item(Some(nw))],
             ok |-> TRUE, passes |-> 0, tries |-> 1]
       ELSE [store |-> afterTry, ok |-> FALSE, passes |-> 0, tries |-> 1]

\* saveToStorage(key, data).  att = <<a1, a2, a3>> says which setItem calls go
\* through: a1 the write of the key, a2 the write of lastSave, a3 the retry.
\* passes counts the cleanupOldData() calls made, tries the setItem(key) calls.
saveToStorage(st, key, data, nw, att) ==
  LET written == [st EXCEPT ![key] = Item(data)]
      afterTry == IF att[1] THEN written ELSE st
      cleaned == cleanupOldData(afterTry, nw)
  IN IF att[1] /\ att[2]
       THEN [store |-> [written EXCEPT ![STORAGE_KEYS.LAST_SAVE] = Item(Some(nw))],
             ok |-> TRUE, passes |-> 0, tries |-> 1]
       ELSE IF att[3]
              THEN [store |-> [cleaned EXCEPT ![key] = Item(data)], ok |-> TRUE,
                    passes |-> 1, tries |-> 2]
              ELSE [store |-> cleaned, ok |-> FALSE, passes |-> 1, tries |-> 2]

\* the setItem outcomes of one saveToStorage call
Attempts(full) ==
  IF full THEN BOOLEAN \X BOOLEAN \X BOOLEAN ELSE {<<TRUE, TRUE, TRUE>>}

\* saveGameState(gameState): the snapshot with the time of the save
saveGameState(st, gameState, nw, att) ==
  saveToStorage(st, STORAGE_KEYS.GAME_STATE,
                Some([gameState EXCEPT !.timestamp = nw]), nw, att)

\* the defaultState of loadGameState() and resetGameState()
DefaultState(nw) ==
  [teamAScore |-> 0, teamBScore |-> 0, teamAName |-> "", teamBName |-> "",
   scoreLogs |-> << >>, abbaStart |-> Null, timestamp |-> nw]

\* loadGameState()
loadGameState(st, nw) ==
  loadFromStorage(st, STORAGE_KEYS.GAME_STATE, Some(DefaultState(nw)))

----------------------------------------------------------------------------
(* DataManager.  gameState.scoreLogs and scoreLogs are one array in the     *)
(* program wherever a method assigns one to the other; the model keeps the *)
(* two fields and makes the same assignments.                              *)

\* saveTeamsData(teamsData): the roster with the time it expires
saveTeamsData(st, teamsData, nw, att) ==
  saveToStorage(st, STORAGE_KEYS.TEAMS_DATA,
                Some([data |-> teamsData, timestamp |-> nw, expiresAt |-> nw + DayMs]),
                nw, att)

\* loadTeamsData(): an expired roster is removed and not returned
loadTeamsData(st, nw) ==
  LET storedData == loadFromStorage(st, STORAGE_KEYS.TEAMS_DATA, Null)
  IN IF IsNull(storedData)
       THEN [store |-> st, data |-> Null]
       ELSE IF nw > Val(storedData).expiresAt
              THEN [store |-> [st EXCEPT ![STORAGE_KEYS.TEAMS_DATA] = Absent],
                    data |-> Null]
              ELSE [store |-> st, data |-> Some(Val(storedData).data)]

\* new DataManager(persistenceManager): the constructor and loadAllData().
\* A roster is the set of its team names.  With loadGameState() giving null,
\* this.gameState.scoreLogs throws a TypeError out of the constructor: threw,
\* and there is no DataManager.
NewDataManager(st, nw) ==
  LET loaded == loadGameState(st, nw)
      gameState == Val(loaded)
      cachedTeamsData == loadTeamsData(st, nw)
  IN IF IsNull(loaded)
       THEN [dm |-> Null, store |-> st, threw |-> TRUE]
       ELSE [dm |-> [gameState |-> gameState, scoreLogs |-> gameState.scoreLogs,
                     teamsData |-> IF IsNull(cachedTeamsData.data) THEN {}
                                   ELSE Val(cachedTeamsData.data),
                     isDirty |-> FALSE],
             store |-> cachedTeamsData.store, threw |-> FALSE]

\* setTeamsData(data): the result of the write is not looked at
setTeamsData(d, st, data, nw, att) ==
  [dm |-> [d EXCEPT !.teamsData = data],
   store |-> saveTeamsData(st, data, nw, att).store]

\* markDirty()
markDirty(d) == [d EXCEPT !.isDirty = TRUE]

\* a saveCurrentState() that clears the dirty flag whether or not the write
\* went through
saveCurrentState_clearsAnyway(d, st, nw, att) ==
  IF ~d.isDirty
    THEN [dm |-> d, store |-> st, ret |-> Null, wrote |-> FALSE]
    ELSE LET w == saveGameState(st, d.gameState, nw, att)
         IN [dm |-> [d EXCEPT !.isDirty = FALSE],
             store |-> w.store, ret |-> Some(w.ok), wrote |-> TRUE]

\* a saveCurrentState() that does not look at the dirty flag
saveCurrentState_unguarded(d, st, nw, att) ==
  LET w == saveGameState(st, d.gameState, nw, att)
  IN [dm |-> IF w.ok THEN [d EXCEPT !.isDirty = FALSE] ELSE d,
      store |-> w.store, ret |-> Some(w.ok), wrote |-> TRUE]

\* saveCurrentState(): ret is what it returns (null: undefined), wrote whether
\* saveGameState() was called
saveCurrentState(d, st, nw, att) ==
  IF ~d.isDirty
    THEN [dm |-> d, store |-> st, ret |-> Null, wrote |-> FALSE]
    ELSE LET w == saveGameState(st, d.gameState, nw, att)
         IN [dm |-> IF w.ok THEN [d EXCEPT !.isDirty = FALSE] ELSE d,
             store |-> w.store, ret |-> Some(w.ok), wrote |-> TRUE]

\* Object.assign(target, updates)
ObjectAssign(target, updates) ==
  [k \in DOMAIN target \cup DOMAIN updates |->
     IF k \in DOMAIN updates THEN updates[k] ELSE target[k]]

\* updateGameState(updates)
updateGameState(d, updates) ==
  markDirty([d EXCEPT !.gameState = ObjectAssign(d.gameState, updates)])

\* addScoreLog(logEntry)
addScoreLog(d, logEntry) ==
  LET logs == Append(d.scoreLogs, logEntry)
  IN markDirty([d EXCEPT !.scoreLogs = logs, !.gameState.scoreLogs = logs])

\* scoreLogs.findIndex(log => log.scoreID === scoreID), from 1; 0: not found
findIndex(logs, scoreID) ==
  IF \E i \in 1..Len(logs) : logs[i].scoreID = scoreID
    THEN CHOOSE i \in 1..Len(logs) :
           /\ logs[i].scoreID = scoreID
           /\ \A j \in 1..(i - 1) : logs[j].scoreID # scoreID
    ELSE 0

\* an updateScoreLog() that forgets markDirty()
updateScoreLog_unmarked(d, scoreID, updates) ==
  LET index == findIndex(d.scoreLogs, scoreID)
      logs == [d.scoreLogs EXCEPT ![index] = ObjectAssign(@, updates)]
  IN IF index # 0
       THEN [dm |-> [d EXCEPT !.scoreLogs = logs, !.gameState.scoreLogs = logs],
             ret |-> TRUE]
       ELSE [dm |-> d, ret |-> FALSE]

\* an updateScoreLog() that marks the session dirty before it looks for the entry
updateScoreLog_marksFirst(d, scoreID, updates) ==
  LET index == findIndex(d.scoreLogs, scoreID)
      logs == [d.scoreLogs EXCEPT ![index] = ObjectAssign(@, updates)]
  IN IF index # 0
       THEN [dm |-> markDirty([d EXCEPT !.scoreLogs = logs, !.gameState.scoreLogs = logs]),
             ret |-> TRUE]
       ELSE [dm |-> markDirty(d), ret |-> FALSE]

\* updateScoreLog(scoreID, updates)
updateScoreLog(d, scoreID, updates) ==
  LET index == findIndex(d.scoreLogs, scoreID)
      logs == [d.scoreLogs EXCEPT ![index] = ObjectAssign(@, updates)]
  IN IF index # 0
       THEN [dm |-> markDirty([d EXCEPT !.scoreLogs = logs, !.gameState.scoreLogs = logs]),
             ret |-> TRUE]
       ELSE [dm |-> d, ret |-> FALSE]

\* getScoreLog(scoreID)
getScoreLog(d, scoreID) ==
  LET index == findIndex(d.scoreLogs, scoreID)
  IN IF index # 0 THEN Some(d.scoreLogs[index]) ELSE Null

RemoveAt(seq, i) == SubSeq(seq, 1, i - 1) \o SubSeq(seq, i + 1, Len(seq))

\* clearScoreLogs()
clearScoreLogs(d) ==
  markDirty([d EXCEPT !.scoreLogs = << >>, !.gameState.scoreLogs = << >>])

\* removeScoreLog(scoreID)
removeScoreLog(d, scoreID) ==
  LET index == findIndex(d.scoreLogs, scoreID)
      logs == RemoveAt(d.scoreLogs, index)
  IN IF index = 0
       THEN [dm |-> d, ret |-> Null]
       ELSE [dm |-> markDirty([d EXCEPT !.scoreLogs = logs, !.gameState.scoreLogs = logs]),
             ret |-> Some(d.scoreLogs[index])]

\* a resetGameState() that leaves the score log as it is
resetGameState_keepsLog(d, nw) ==
  markDirty([d EXCEPT !.gameState = DefaultState(nw)])

\* resetGameState()
resetGameState(d, nw) ==
  markDirty([d EXCEPT !.gameState = DefaultState(nw), !.scoreLogs = << >>])

----------------------------------------------------------------------------
(* TimerManager *)

\* the element of a set of one element.  The({e(x) : x \in {v}}) is e(v),
\* with v worked out once however often e refers to x
The(S) == CHOOSE x \in S : TRUE

\* Date.parse(d) of a Date: the Date is turned into its string first, which
\* has no milliseconds
DateParse(t) == (t \div MsPerSecond) * MsPerSecond

\* getTimeRemaining(endtime).total
getTimeRemaining(endtime, nw) == DateParse(endtime) - DateParse(nw)

\* saveTimerState(): three writes, none of their results is looked at
saveTimerState(t0, st0, nw, plan) ==
  The({(
    LET s1 == saveToStorage(st, "timerEndTime", t.endTime, nw, plan[1]).store
        s2 == saveToStorage(s1, STORAGE_KEYS.TIMER_RUNNING, Some(t.isRunning), nw, plan[2]).store
    IN saveToStorage(s2, "timerRemainingTime", t.remainingTimeMs, nw, plan[3]).store
  ) : t \in {t0}, st \in {st0}})

\* which writes of one saveTimerState() go through: all of them, or, with the
\* quota exhausted, all but one
SavePlans(full) ==
  LET yes == <<TRUE, TRUE, TRUE>>
      no == <<FALSE, FALSE, FALSE>>
  IN IF full THEN {<<yes, yes, yes>>, <<no, yes, yes>>, <<yes, no, yes>>, <<yes, yes, no>>}
             ELSE {<<yes, yes, yes>>}

\* setRemainingTime(milliseconds)
setRemainingTime(t, milliseconds) ==
  [t EXCEPT !.remainingTimeMs = milliseconds, !.endTime = Null]

\* Math.floor(x / d) and Math.floor(x % d) of JavaScript for d > 0: % has the
\* sign of x
FloorDiv(x, d) == x \div d
FloorRem(x, d) == IF x >= 0 THEN x % d ELSE 0 - ((0 - x) % d)
Abs(x) == IF x >= 0 THEN x ELSE 0 - x

\* the text updateDisplay() writes for total ms: a minus sign for total < 0,
\* two digits of |minutes| and of |seconds|, with
\* minutes = Math.floor(total / 1000 / 60), seconds = Math.floor((total / 1000) % 60)
TimeString(total) ==
  [negative |-> total < 0,
   mins |-> Abs(FloorDiv(total, 60 * 1000)),
   secs |-> Abs(FloorDiv(FloorRem(total, 60 * 1000), 1000))]

\* updateDisplay(): the text of #timerDisplay
updateDisplay(t0, nw) ==
  The({(
    LET total == IF t.isRunning /\ ~IsNull(t.endTime)
                   THEN getTimeRemaining(Val(t.endTime), nw)
                   ELSE IF ~IsNull(t.remainingTimeMs)
                          THEN Val(t.remainingTimeMs)
                          ELSE DEFAULT_TIMER_MINUTES * 60 * 1000
    IN [t EXCEPT !.display = Some(TimeString(total))]
  ) : t \in {t0}})

\* setInterval and clearInterval for the timer object t.  The object keeps the
\* handle of its interval in timerInterval (FALSE: null); scheduled counts the
\* intervals of the object the browser will still run
setInterval(t) == [t EXCEPT !.timerInterval = TRUE, !.scheduled = @ + 1]
clearInterval(t) == [t EXCEPT !.scheduled = IF @ > 0 THEN @ - 1 ELSE 0]

\* start()
TimerManager_start(t0, st0, nw, plan) ==
  The({(
    IF t.isRunning THEN [timer |-> t, store |-> st]
    ELSE
      LET t1 == IF ~IsNull(t.remainingTimeMs)
                  THEN [t EXCEPT !.endTime = Some(nw + Val(t.remainingTimeMs)),
                                 !.remainingTimeMs = Null]
                  ELSE t
          t2 == IF IsNull(t1.endTime)
                  THEN [t1 EXCEPT !.endTime = Some(nw + DEFAULT_TIMER_MINUTES * MinuteMs)]
                  ELSE t1
          t3 == [t2 EXCEPT !.isRunning = TRUE]
          t4 == IF t3.timerInterval THEN clearInterval(t3) ELSE t3
      IN [timer |-> updateDisplay(setInterval(t4), nw),
          store |-> saveTimerState(t3, st, nw, plan)]
  ) : t \in {t0}, st \in {st0}})

\* a stop() that leaves the interval to the browser
TimerManager_stop_keepsInterval(t0, st0, nw, plan) ==
  The({(
    IF ~t.isRunning THEN [timer |-> t, store |-> st]
    ELSE
      LET t1 == IF ~IsNull(t.endTime)
                  THEN [t EXCEPT !.remainingTimeMs =
                                   Some(Max(0, getTimeRemaining(Val(t.endTime), nw)))]
                  ELSE t
          t2 == [t1 EXCEPT !.isRunning = FALSE, !.endTime = Null,
                           !.timerInterval = FALSE]
      IN [timer |-> updateDisplay(t2, nw), store |-> saveTimerState(t2, st, nw, plan)]
  ) : t \in {t0}, st \in {st0}})

\* stop()
TimerManager_stop(t0, st0, nw, plan) ==
  The({(
    IF ~t.isRunning THEN [timer |-> t, store |-> st]
    ELSE
      LET t1 == IF ~IsNull(t.endTime)
                  THEN [t EXCEPT !.remainingTimeMs =
                                   Some(Max(0, getTimeRemaining(Val(t.endTime), nw)))]
                  ELSE t
          t2 == [t1 EXCEPT !.isRunning = FALSE, !.endTime = Null]
          t3 == IF t2.timerInterval
                  THEN [clearInterval(t2) EXCEPT !.timerInterval = FALSE]
                  ELSE t2
      IN [timer |-> updateDisplay(t3, nw), store |-> saveTimerState(t3, st, nw, plan)]
  ) : t \in {t0}, st \in {st0}})

\* toggle()
TimerManager_toggle(t, st, nw, plan) ==
  IF t.isRunning THEN TimerManager_stop(t, st, nw, plan)
                 ELSE TimerManager_start(t, st, nw, plan)

\* a reset() that sets the time without stopping the clock first
TimerManager_reset_noStop(t0, st0, nw, minutes, plan1, plan2) ==
  The({(
    LET t1 == [t EXCEPT !.remainingTimeMs = Some(minutes * 60 * 1000)]
    IN [timer |-> updateDisplay(t1, nw), store |-> saveTimerState(t1, st, nw, plan2)]
  ) : t \in {t0}, st \in {st0}})

\* reset(minutes)
TimerManager_reset(t0, st0, nw, minutes, plan1, plan2) ==
  The({(
    LET s == TimerManager_stop(t, st, nw, plan1)
        t1 == [s.timer EXCEPT !.remainingTimeMs = Some(minutes * 60 * 1000),
                              !.endTime = Null]
    IN [timer |-> updateDisplay(t1, nw), store |-> saveTimerState(t1, s.store, nw, plan2)]
  ) : t \in {t0}, st \in {st0}})

\* the callback start() hands to setInterval
timerIntervalCallback(t, st, nw, plan) ==
  IF /\ ~IsNull(t.endTime)
     /\ getTimeRemaining(Val(t.endTime), nw) <= 0
     /\ t.isRunning
    THEN TimerManager_stop(updateDisplay(t, nw), st, nw, plan)
    ELSE [timer |-> updateDisplay(t, nw), store |-> st]

\* new TimerManager(): the fields as the constructor sets them
NewTimer ==
  [isRunning |-> FALSE, endTime |-> Null, remainingTimeMs |-> Null,
   timerInterval |-> FALSE, scheduled |-> 0, display |-> Null]

\* a loadTimerState() that starts a stored running clock anew, from the
\* default duration
loadTimerState_restarted(t, st0, nw, plan1, plan2) ==
  The({(
    LET storedEndTime == loadFromStorage(st, "timerEndTime", Null)
        storedIsRunning == loadFromStorage(st, STORAGE_KEYS.TIMER_RUNNING, Null)
        storedRemainingTime == loadFromStorage(st, "timerRemainingTime", Null)
        t1 == IF ~IsNull(storedEndTime) THEN [t EXCEPT !.endTime = storedEndTime] ELSE t
        t2 == IF TruthyNum(storedRemainingTime)
                THEN [t1 EXCEPT !.remainingTimeMs = storedRemainingTime]
                ELSE t1
        t3 == [t2 EXCEPT !.isRunning = (storedIsRunning = Some(TRUE))]
    IN IF t3.isRunning /\ ~IsNull(t3.endTime)
         THEN IF getTimeRemaining(Val(t3.endTime), nw) <= 0
                THEN TimerManager_stop(t3, st, nw, plan1)
                ELSE [timer |-> [t3 EXCEPT !.endTime =
                                   Some(nw + DEFAULT_TIMER_MINUTES * MinuteMs)],
                      store |-> st]
         ELSE IF ~IsNull(t3.remainingTimeMs)
                THEN [timer |-> updateDisplay(setRemainingTime(t3, t3.remainingTimeMs), nw),
                      store |-> st]
                ELSE TimerManager_reset(t3, st, nw, DEFAULT_TIMER_MINUTES, plan1, plan2)
  ) : st \in {st0}})

\* a loadTimerState() that lets a stored running clock run on whether or not
\* its end has passed
loadTimerState_runsOn(t, st0, nw, plan1, plan2) ==
  The({(
    LET storedEndTime == loadFromStorage(st, "timerEndTime", Null)
        storedIsRunning == loadFromStorage(st, STORAGE_KEYS.TIMER_RUNNING, Null)
        storedRemainingTime == loadFromStorage(st, "timerRemainingTime", Null)
        t1 == IF ~IsNull(storedEndTime) THEN [t EXCEPT !.endTime = storedEndTime] ELSE t
        t2 == IF TruthyNum(storedRemainingTime)
                THEN [t1 EXCEPT !.remainingTimeMs = storedRemainingTime]
                ELSE t1
        t3 == [t2 EXCEPT !.isRunning = (storedIsRunning = Some(TRUE))]
    IN IF t3.isRunning /\ ~IsNull(t3.endTime)
         THEN TimerManager_start(t3, st, nw, plan1)
         ELSE IF ~IsNull(t3.remainingTimeMs)
                THEN [timer |-> updateDisplay(setRemainingTime(t3, t3.remainingTimeMs), nw),
                      store |-> st]
                ELSE TimerManager_reset(t3, st, nw, DEFAULT_TIMER_MINUTES, plan1, plan2)
  ) : st \in {st0}})

\* loadTimerState()
loadTimerState(t, st0, nw, plan1, plan2) ==
  The({(
    LET storedEndTime == loadFromStorage(st, "timerEndTime", Null)
        storedIsRunning == loadFromStorage(st, STORAGE_KEYS.TIMER_RUNNING, Null)
        storedRemainingTime == loadFromStorage(st, "timerRemainingTime", Null)
        t1 == IF ~IsNull(storedEndTime) THEN [t EXCEPT !.endTime = storedEndTime] ELSE t
        t2 == IF TruthyNum(storedRemainingTime)
                THEN [t1 EXCEPT !.remainingTimeMs = storedRemainingTime]
                ELSE t1
        t3 == [t2 EXCEPT !.isRunning = (storedIsRunning = Some(TRUE))]
    IN IF t3.isRunning /\ ~IsNull(t3.endTime)
         THEN IF getTimeRemaining(Val(t3.endTime), nw) <= 0
                THEN TimerManager_stop(t3, st, nw, plan1)
                ELSE TimerManager_start(t3, st, nw, plan1)
         ELSE IF ~IsNull(t3.remainingTimeMs)
                THEN [timer |-> updateDisplay(setRemainingTime(t3, t3.remainingTimeMs), nw),
                      store |-> st]
                ELSE TimerManager_reset(t3, st, nw, DEFAULT_TIMER_MINUTES, plan1, plan2)
  ) : st \in {st0}})

\* getRemainingSeconds()
getRemainingSeconds(t, nw) ==
  IF t.isRunning /\ ~IsNull(t.endTime)
    THEN getTimeRemaining(Val(t.endTime), nw) \div 1000
    ELSE IF ~IsNull(t.remainingTimeMs) THEN Val(t.remainingTimeMs) \div 1000 ELSE 0

----------------------------------------------------------------------------
(* SecondsTimerManager.  It is never stored.  Its display is the text of   *)
(* #timerDisplaySec: the two numbers shown, minutes and seconds.           *)

\* this.defaultSeconds
DefaultSeconds == 90

\* parseInt(input.value, 10) || this.defaultSeconds, for the number typed into
\* #countdownTimeSec (0: empty or zero)
SecondsOr(input) == IF input # 0 THEN input ELSE DefaultSeconds

\* updateDisplay(existing): existing is the total of the time remaining handed
\* over by tick(), or null
SecondsTimerManager_updateDisplay(t, existing, nw) ==
  LET total == IF ~IsNull(existing) THEN Val(existing)
               ELSE IF t.isRunning /\ ~IsNull(t.endTime)
                      THEN getTimeRemaining(Val(t.endTime), nw)
                      ELSE IF ~IsNull(t.remainingTimeMs)
                             THEN Val(t.remainingTimeMs)
                             ELSE DefaultSeconds * 1000
  IN [t EXCEPT !.display =
        Some([mins |-> Max(0, FloorDiv(total, 60 * 1000)),
              secs |-> Max(0, FloorDiv(FloorRem(total, 60 * 1000), 1000))])]

\* new SecondsTimerManager()
NewSecondsTimer ==
  SecondsTimerManager_updateDisplay(
    [timerInterval |-> FALSE, scheduled |-> 0, isRunning |-> FALSE, endTime |-> Null,
     remainingTimeMs |-> Null, display |-> Null], Null, 0)

\* a start() that clears remainingTimeMs once the end time is set
SecondsTimerManager_start_clears(t, input, nw) ==
  IF t.isRunning THEN t
  ELSE
    LET t1 == IF IsNull(t.remainingTimeMs)
                THEN [t EXCEPT !.remainingTimeMs = Some(SecondsOr(input) * 1000)]
                ELSE t
        t2 == [t1 EXCEPT !.endTime = Some(nw + Val(t1.remainingTimeMs)),
                         !.isRunning = TRUE, !.remainingTimeMs = Null]
    IN setInterval(t2)

\* start(): input is what #countdownTimeSec holds
SecondsTimerManager_start(t, input, nw) ==
  IF t.isRunning THEN t
  ELSE
    LET t1 == IF IsNull(t.remainingTimeMs)
                THEN [t EXCEPT !.remainingTimeMs = Some(SecondsOr(input) * 1000)]
                ELSE t
        t2 == [t1 EXCEPT !.endTime = Some(nw + Val(t1.remainingTimeMs)),
                         !.isRunning = TRUE]
    IN setInterval(t2)

\* stop()
SecondsTimerManager_stop(t, nw) ==
  IF ~t.isRunning THEN t
  ELSE
    LET t1 == [t EXCEPT !.isRunning = FALSE]
        t2 == [(IF t1.timerInterval THEN clearInterval(t1) ELSE t1)
                 EXCEPT !.timerInterval = FALSE]
    IN [t2 EXCEPT !.remainingTimeMs =
                    Some(Max(0, getTimeRemaining(Val(t2.endTime), nw))),
                  !.endTime = Null]

\* toggle()
SecondsTimerManager_toggle(t, input, nw) ==
  IF t.isRunning THEN SecondsTimerManager_stop(t, nw)
                 ELSE SecondsTimerManager_start(t, input, nw)

\* reset(seconds)
SecondsTimerManager_reset(t, seconds, nw) ==
  LET s == SecondsTimerManager_stop(t, nw)
      secs == Max(1, SecondsOr(seconds))
  IN SecondsTimerManager_updateDisplay(
       [s EXCEPT !.remainingTimeMs = Some(secs * 1000)], Null, nw)

\* tick(): the callback start() hands to setInterval
SecondsTimerManager_tick(t, nw) ==
  LET total == getTimeRemaining(Val(t.endTime), nw)
      t1 == SecondsTimerManager_updateDisplay(t, Some(total), nw)
  IN IF total <= 0
       THEN [SecondsTimerManager_stop(t1, nw) EXCEPT !.remainingTimeMs = Some(0)]
       ELSE t1

----------------------------------------------------------------------------
(* ScorekeeperApp.  The record holds the fields of the instance and the     *)
(* page elements its methods read and write: the two team selectors         *)
(* (teamA, teamB) and their options, the score popup and the scoring        *)
(* table.  A row of the table has its data-score-id attribute; what its     *)
(* cells show is no state of the model, but for the possession marker of    *)
(* its first cell (abba).  The popup is null while hidden                   *)
(* and holds its dataset.team and whether its delete button is shown while  *)
(* it is up: openPopup() and editScore() set both before they show it, and  *)
(* nothing reads them while it is hidden.  isRestoring is false whenever a  *)
(* handler can run and is left out.  A log entry carries one history field  *)
(* more than in the program: side, the letter of the popup it was added     *)
(* from.                                                                     *)

\* the fields as the constructor sets them, on the page as it is served
NewApp ==
  [teamAScore |-> 0, teamBScore |-> 0, currentEditID |-> Null, abbaStart |-> "M",
   teamA |-> "", teamB |-> "", options |-> {}, popup |-> Null, table |-> << >>]

\* select.value = value: a value that is no option leaves nothing selected
SelectValue(options, value) == IF value \in options THEN value ELSE ""

\* createLogObject(scoreID, teamLetter, scorer, assist)
createLogObject(scoreID, teamLetter, scorer, assist, teamAName, teamBName, nw) ==
  [scoreID |-> scoreID, GameID |-> <<teamAName, teamBName>>, Time |-> DateParse(nw),
   Team |-> IF teamLetter = "A" THEN teamAName ELSE teamBName,
   Score |-> scorer, Assist |-> assist]

\* computeAbbaForIndex(index), abbaStart being this.abbaStart
computeAbbaForIndex(abbaStart, index) ==
  LET start == IF abbaStart = "F" THEN "F" ELSE "M"
      other == IF start = "M" THEN "F" ELSE "M"
      adjusted == index - 1
      block == adjusted \div 2
  IN IF index = 0 THEN start
     ELSE IF block % 2 = 0 THEN other ELSE start

\* updateAbbaColumn()
updateAbbaColumn(a) ==
  [a EXCEPT !.table = [i \in 1..Len(a.table) |->
                         [a.table[i] EXCEPT !.abba = computeAbbaForIndex(a.abbaStart, i - 1)]]]

\* createScoreRow(logEntry, index)
createScoreRow(a, logEntry, index) ==
  [scoreID |-> logEntry.scoreID, abba |-> computeAbbaForIndex(a.abbaStart, index)]

\* rebuildScoreTable(scoreLogs)
rebuildScoreTable(a, scoreLogs) ==
  [a EXCEPT !.table = [i \in 1..Len(scoreLogs) |-> createScoreRow(a, scoreLogs[i], i - 1)]]

\* a restoreGameState() that leaves the starting side as the constructor set it
restoreGameState_noAbba(a, gameState) ==
  LET a1 == [a EXCEPT !.teamAScore = gameState.teamAScore,
                      !.teamBScore = gameState.teamBScore]
      a2 == IF gameState.teamAName # ""
              THEN [a1 EXCEPT !.teamA = SelectValue(a1.options, gameState.teamAName)]
              ELSE a1
      a3 == IF gameState.teamBName # ""
              THEN [a2 EXCEPT !.teamB = SelectValue(a2.options, gameState.teamBName)]
              ELSE a2
  IN IF Len(gameState.scoreLogs) > 0
       THEN rebuildScoreTable(a3, gameState.scoreLogs)
       ELSE a3

\* restoreGameState(gameState)
restoreGameState(a, gameState) ==
  LET a1 == [a EXCEPT !.teamAScore = gameState.teamAScore,
                      !.teamBScore = gameState.teamBScore]
      a2 == IF gameState.teamAName # ""
              THEN [a1 EXCEPT !.teamA = SelectValue(a1.options, gameState.teamAName)]
              ELSE a1
      a3 == IF gameState.teamBName # ""
              THEN [a2 EXCEPT !.teamB = SelectValue(a2.options, gameState.teamBName)]
              ELSE a2
      a4 == IF Len(gameState.scoreLogs) > 0
              THEN rebuildScoreTable(a3, gameState.scoreLogs)
              ELSE a3
  IN IF ~IsNull(gameState.abbaStart)
       THEN updateAbbaColumn(
              [a4 EXCEPT !.abbaStart = IF Val(gameState.abbaStart) = "F" THEN "F" ELSE "M"])
       ELSE a4

\* a checkAndRestoreState() that asks and leaves the answer without effect
checkAndRestoreState_unapplied(a, d, nw, shouldRestore) ==
  LET gameState == d.gameState
  IN IF gameState.timestamp # 0 /\ (nw - gameState.timestamp) < DayMs
       THEN [app |-> a, dm |-> d, answer |-> Some(shouldRestore)]
       ELSE [app |-> a, dm |-> d, answer |-> Null]

\* checkAndRestoreState(); shouldRestore is the answer to confirm(), answer
\* is null when confirm() was not called
checkAndRestoreState(a, d, nw, shouldRestore) ==
  LET gameState == d.gameState
  IN IF gameState.timestamp # 0 /\ (nw - gameState.timestamp) < DayMs
       THEN IF shouldRestore
              THEN [app |-> restoreGameState(a, gameState), dm |-> d,
                    answer |-> Some(TRUE)]
              ELSE [app |-> a, dm |-> resetGameState(d, nw), answer |-> Some(FALSE)]
       ELSE [app |-> a, dm |-> d, answer |-> Null]

\* an autoSave() that takes the state of the page and leaves the saving out
autoSave_noSave(a, d, st, nw, att) ==
  LET currentState ==
        [teamAScore |-> a.teamAScore, teamBScore |-> a.teamBScore,
         teamAName |-> a.teamA, teamBName |-> a.teamB,
         scoreLogs |-> d.scoreLogs, abbaStart |-> Some(a.abbaStart),
         timestamp |-> nw]
  IN [dm |-> updateGameState(d, currentState), store |-> st, ret |-> Null, wrote |-> FALSE]

\* autoSave(): ret and wrote are those of its saveCurrentState()
autoSave(a, d, st, nw, att) ==
  LET currentState ==
        [teamAScore |-> a.teamAScore, teamBScore |-> a.teamBScore,
         teamAName |-> a.teamA, teamBName |-> a.teamB,
         scoreLogs |-> d.scoreLogs, abbaStart |-> Some(a.abbaStart),
         timestamp |-> nw]
  IN saveCurrentState(updateGameState(d, currentState), st, nw, att)

\* populateTeamOptions(teams)
populateTeamOptions(a, teams) ==
  [a EXCEPT !.options = teams,
            !.teamA = SelectValue(teams, a.teamA),
            !.teamB = SelectValue(teams, a.teamB)]

\* a loadTeams() that does not look at the cached roster
loadTeams_noFallback(a, d, st, nw, fetched, att) ==
  IF ~IsNull(fetched)
    THEN LET r == setTeamsData(d, st, Val(fetched), nw, att)
         IN [app |-> populateTeamOptions(a, Val(fetched)), dm |-> r.dm, store |-> r.store]
    ELSE LET r == setTeamsData(d, st, {}, nw, att)
         IN [app |-> populateTeamOptions(a, {}), dm |-> r.dm, store |-> r.store]

\* loadTeams() once fetchTeams() has settled; fetched is null when it threw
loadTeams(a, d, st, nw, fetched, att) ==
  IF ~IsNull(fetched)
    THEN LET r == setTeamsData(d, st, Val(fetched), nw, att)
         IN [app |-> populateTeamOptions(a, Val(fetched)), dm |-> r.dm, store |-> r.store]
    ELSE IF d.teamsData # {}
           THEN [app |-> populateTeamOptions(a, d.teamsData), dm |-> d, store |-> st]
           ELSE LET r == setTeamsData(d, st, {}, nw, att)
                IN [app |-> a, dm |-> r.dm, store |-> r.store]

\* openPopup(team)
openPopup(a, team) ==
  [a EXCEPT !.currentEditID = Null,
            !.popup = Some([team |-> team, deleteShown |-> FALSE])]

\* closePopup()
closePopup(a) == [a EXCEPT !.popup = Null, !.currentEditID = Null]

\* addScoreToTable(logEntry)
addScoreToTable(a, logEntry) ==
  LET currentIndex == Len(a.table)
  IN [a EXCEPT !.table = Append(a.table, createScoreRow(a, logEntry, currentIndex))]

\* addNewScore(team, scorer, assist)
addNewScore(a, d, team, scorer, assist, nw) ==
  LET a1 == IF team = "A" THEN [a EXCEPT !.teamAScore = @ + 1]
                          ELSE [a EXCEPT !.teamBScore = @ + 1]
      logEntry == ObjectAssign(createLogObject(nw, team, scorer, assist, a.teamA, a.teamB, nw),
                               [side |-> team])
  IN [app |-> closePopup(addScoreToTable(a1, logEntry)),
      dm |-> addScoreLog(d, logEntry), ret |-> Some(TRUE)]

\* an updateExistingScore() that writes the team now selected for side A
\* into the entry as well
updateExistingScore_relabels(a, d, scorer, assist) ==
  LET updated == updateScoreLog(d, Val(a.currentEditID),
                                [Score |-> scorer, Assist |-> assist, Team |-> a.teamA])
  IN IF updated.ret
       THEN [app |-> closePopup(a), dm |-> updated.dm, ret |-> Some(TRUE)]
       ELSE [app |-> a, dm |-> d, ret |-> Some(FALSE)]

\* updateExistingScore(scorer, assist)
updateExistingScore(a, d, scorer, assist) ==
  LET updated == updateScoreLog(d, Val(a.currentEditID), [Score |-> scorer, Assist |-> assist])
  IN IF updated.ret
       THEN [app |-> closePopup(a), dm |-> updated.dm, ret |-> Some(TRUE)]
       ELSE [app |-> a, dm |-> d, ret |-> Some(FALSE)]

\* a handleSaveScore() that asks for the team only
handleSaveScore_teamOnly(a, d, scorer, assist, nw) ==
  IF IsNull(a.popup)
    THEN [app |-> a, dm |-> d, ret |-> Null]
    ELSE IF IsNull(a.currentEditID)
           THEN addNewScore(a, d, Val(a.popup).team, scorer, assist, nw)
           ELSE updateExistingScore(a, d, scorer, assist)

\* handleSaveScore(); "" is an empty choice of scorer or assist
handleSaveScore(a, d, scorer, assist, nw) ==
  IF IsNull(a.popup) \/ scorer = "" \/ assist = ""
    THEN [app |-> a, dm |-> d, ret |-> Null]
    ELSE IF IsNull(a.currentEditID)
           THEN addNewScore(a, d, Val(a.popup).team, scorer, assist, nw)
           ELSE updateExistingScore(a, d, scorer, assist)

\* editScore(scoreID)
editScore(a, d, scoreID) ==
  LET logToEdit == getScoreLog(d, scoreID)
  IN IF IsNull(logToEdit) THEN a
     ELSE [a EXCEPT !.currentEditID = Some(scoreID),
                    !.popup = Some([team |-> IF Val(logToEdit).Team = a.teamA
                                               THEN "A" ELSE "B",
                                    deleteShown |-> TRUE])]

\* rebuildTableAndCounters()
rebuildTableAndCounters(a, scoreLogs) ==
  LET countA == Cardinality({i \in 1..Len(scoreLogs) : scoreLogs[i].Team = a.teamA})
  IN updateAbbaColumn(
       [a EXCEPT !.teamAScore = countA,
                 !.teamBScore = Len(scoreLogs) - countA,
                 !.table = [i \in 1..Len(scoreLogs) |-> createScoreRow(a, scoreLogs[i], i - 1)]])

\* handleDeleteScore(); ret is null when nothing was deleted
handleDeleteScore(a, d, st, nw, att) ==
  IF IsNull(a.currentEditID)
    THEN [app |-> a, dm |-> d, store |-> st, ret |-> Null]
    ELSE LET removed == removeScoreLog(d, Val(a.currentEditID))
             a1 == closePopup(rebuildTableAndCounters(a, removed.dm.scoreLogs))
             saved == autoSave(a1, removed.dm, st, nw, att)
         IN IF IsNull(removed.ret)
              THEN [app |-> a, dm |-> d, store |-> st, ret |-> Null]
              ELSE [app |-> a1, dm |-> saved.dm, store |-> saved.store, ret |-> Some(TRUE)]

\* handleAbbaChange(); value is what the selector shows
handleAbbaChange(a, d, st, nw, value, att) ==
  LET a1 == updateAbbaColumn([a EXCEPT !.abbaStart = IF value = "F" THEN "F" ELSE "M"])
      saved == autoSave(a1, d, st, nw, att)
  IN [app |-> a1, dm |-> saved.dm, store |-> saved.store, ret |-> saved.ret]

\* handleSubmitScore() up to its await: the CSV text and the payload it has
\* built from the log, one row of the five exported fields for each entry, in
\* the order of the log (log.GameID is never empty, so the fallback to the
\* page's game id is not taken)
ExportOf(d) ==
  [i \in 1..Len(d.scoreLogs) |->
     [GameID |-> d.scoreLogs[i].GameID, Time |-> d.scoreLogs[i].Time,
      Team |-> d.scoreLogs[i].Team, Score |-> d.scoreLogs[i].Score,
      Assist |-> d.scoreLogs[i].Assist]]

\* how the fetch() of submitScores() settles: resolved, submitScores returns
\* true; rejected, it throws
SubmitOutcomes == {"sent", "rejected"}

\* handleSubmitScore() after its await
finishSubmitScore_downloadWhenSent(a, d, st, nw, att, csv, outcome) ==
  LET d1 == clearScoreLogs(d)
      a1 == [rebuildTableAndCounters(a, d1.scoreLogs) EXCEPT !.currentEditID = Null]
      d2 == updateGameState(d1, [teamAScore |-> 0, teamBScore |-> 0,
                                 scoreLogs |-> << >>, timestamp |-> nw])
      saved == saveCurrentState(d2, st, nw, att)
  IN [app |-> a1, dm |-> saved.dm, store |-> saved.store,
      ret |-> saved.ret,
      notice |-> IF outcome = "sent" THEN "success" ELSE "error",
      download |-> IF outcome = "sent" THEN Some(csv) ELSE Null]

\* handleSubmitScore() after its await: csv is the text built before it,
\* outcome how submitScores() settled.  notice is the notification of the try
\* block, download the text handed to downloadTextFile(), ret what
\* saveCurrentState() returned.
finishSubmitScore(a, d, st, nw, att, csv, outcome) ==
  LET d1 == clearScoreLogs(d)
      a1 == [rebuildTableAndCounters(a, d1.scoreLogs) EXCEPT !.currentEditID = Null]
      d2 == updateGameState(d1, [teamAScore |-> 0, teamBScore |-> 0,
                                 scoreLogs |-> << >>, timestamp |-> nw])
      saved == saveCurrentState(d2, st, nw, att)
  IN [app |-> a1, dm |-> saved.dm, store |-> saved.store,
      ret |-> saved.ret,
      notice |-> IF outcome = "sent" THEN "success" ELSE "error",
      download |-> Some(csv)]

----------------------------------------------------------------------------
(* History kept for stating properties *)

Called(op, ret) == [op |-> op, ret |-> ret]

\* the start() a running clock runs from: recorded when start() sets a new end
\* time, dropped when the clock is no longer running
StartedAfter(t0, t1, nw) ==
  IF ~t1.isRunning THEN Null
  ELSE IF ~t0.isRunning /\ ~IsNull(t0.remainingTimeMs)
         THEN Some([at |-> nw, dur |-> Val(t0.remainingTimeMs)])
         ELSE started

----------------------------------------------------------------------------
(* The page and its events: the match clock *)

\* new ScorekeeperApp(): the managers are built from what is stored
Construct(st, nw, plan1, plan2) ==
  The({The({[dm |-> d.dm, timer |-> t.timer, secondsTimer |-> NewSecondsTimer,
             store |-> t.store, app |-> NewApp] :
              t \in {loadTimerState(NewTimer, d.store, nw, plan1, plan2)}}) :
         d \in {NewDataManager(st, nw)}})

\* the page is opened for the first time, nothing is stored and the quota
\* is not exhausted: the state when new ScorekeeperApp() returns
Init ==
  /\ now = Epoch
  /\ storeFull = FALSE
  /\ LET plan == CHOOSE q \in SavePlans(FALSE) : TRUE
         c == Construct(EmptyStore, Epoch, plan, plan)
     IN /\ dm = c.dm /\ timer = c.timer /\ store = c.store /\ app = c.app
        /\ secondsTimer = c.secondsTimer
  /\ phase = "constructed"
  /\ exports = << >>
  /\ events = 0
  /\ started = Null
  /\ last = Called("load", Null)

\* the wall clock advances
Advance ==
  \E t \in Instants :
    /\ t > now
    /\ now' = t
    /\ UNCHANGED <<store, storeFull, timerVars, dataVars, appVars, last>>

\* the storage quota runs out, or space is freed again, outside the application
QuotaChanges ==
  /\ storeFull' = ~storeFull
  /\ UNCHANGED <<now, store, timerVars, dataVars, appVars, last>>

\* click on play/pause: handleTimerToggle
HandleTimerToggle ==
  \E plan \in SavePlans(storeFull) :
    \E r \in {TimerManager_toggle(timer, store, now, plan)} :
       /\ timer' = r.timer
       /\ store' = r.store
       /\ started' = StartedAfter(timer, r.timer, now)
       /\ last' = Called("toggle", Null)
       /\ UNCHANGED <<now, storeFull, secondsTimer, dataVars, appVars>>

\* click on reset: handleTimerReset
HandleTimerReset ==
  \E input \in MinutesInputs, plan1 \in SavePlans(storeFull), plan2 \in SavePlans(storeFull) :
    \E r \in {TimerManager_reset(timer, store, now,
                                  IF input # 0 THEN input ELSE DEFAULT_TIMER_MINUTES,
                                  plan1, plan2)} :
       /\ timer' = r.timer
       /\ store' = r.store
       /\ started' = Null
       /\ last' = Called("reset",
                         Some([minutes |-> IF input # 0 THEN input ELSE DEFAULT_TIMER_MINUTES,
                               wasRunning |-> timer.isRunning]))
       /\ UNCHANGED <<now, storeFull, secondsTimer, dataVars, appVars>>

\* the 1-second interval of a started clock fires
TimerTick ==
  /\ timer.scheduled > 0
  /\ \E plan \in SavePlans(storeFull) :
       \E r \in {timerIntervalCallback(timer, store, now, plan)} :
          /\ timer' = r.timer
          /\ store' = r.store
          /\ started' = StartedAfter(timer, r.timer, now)
          /\ last' = IF [r.timer EXCEPT !.display = timer.display] = timer
                       THEN last ELSE Called("tick", Null)
          /\ UNCHANGED <<now, storeFull, secondsTimer, dataVars, appVars>>

\* the page is reloaded: a new TimerManager is built from what is stored
TimerPageLoad ==
  \E plan1 \in SavePlans(storeFull), plan2 \in SavePlans(storeFull) :
    \E r \in {loadTimerState(NewTimer, store, now, plan1, plan2)} :
       /\ timer' = r.timer
       /\ store' = r.store
       /\ started' = IF /\ timer.isRunning /\ r.timer.isRunning
                          /\ loadFromStorage(store, STORAGE_KEYS.TIMER_RUNNING, Null) = Some(TRUE)
                          /\ loadFromStorage(store, "timerEndTime", Null) = timer.endTime
                       THEN started ELSE Null
       /\ secondsTimer' = NewSecondsTimer
       /\ last' = Called("load", Null)
       /\ UNCHANGED <<now, storeFull, dataVars, appVars>>

NextTimer ==
  \/ Advance
  \/ QuotaChanges
  \/ HandleTimerToggle
  \/ HandleTimerReset
  \/ TimerTick
  \/ TimerPageLoad

SpecTimer == Init /\ [][NextTimer]_vars

\* the same with the scheduling of setInterval: a callback that is scheduled
\* and would change the clock is run in the end
SpecTimerLive == SpecTimer /\ WF_vars(TimerTick)

----------------------------------------------------------------------------
(* The page and its events: the seconds countdown *)

\* what the user has typed into #countdownTimeSec (0: empty or zero)
SecondsInputs == {0, 30, -5}

\* click on the play/pause button of the seconds countdown: handleSecTimerToggle
HandleSecTimerToggle ==
  \E input \in SecondsInputs :
    /\ secondsTimer' = SecondsTimerManager_toggle(secondsTimer, input, now)
    /\ last' = Called("secToggle", Null)
    /\ UNCHANGED <<now, store, storeFull, timer, started, dataVars, appVars>>

\* click on its reset button: handleSecTimerReset
HandleSecTimerReset ==
  \E input \in SecondsInputs :
    /\ secondsTimer' = SecondsTimerManager_reset(secondsTimer, SecondsOr(input), now)
    /\ last' = Called("secReset", Null)
    /\ UNCHANGED <<now, store, storeFull, timer, started, dataVars, appVars>>

\* a 200 ms interval of the seconds countdown fires
SecondsTick ==
  /\ secondsTimer.scheduled > 0
  /\ secondsTimer' = SecondsTimerManager_tick(secondsTimer, now)
  /\ last' = IF secondsTimer' = secondsTimer THEN last ELSE Called("secTick", Null)
  /\ UNCHANGED <<now, store, storeFull, timer, started, dataVars, appVars>>

NextSeconds ==
  \/ Advance
  \/ HandleSecTimerToggle
  \/ HandleSecTimerReset
  \/ SecondsTick
  \/ TimerPageLoad

SpecSeconds == Init /\ [][NextSeconds]_vars

\* the two clocks of the page side by side, with storage that takes every write
NextClocks ==
  \/ Advance
  \/ HandleTimerToggle
  \/ HandleTimerReset
  \/ TimerTick
  \/ TimerPageLoad
  \/ HandleSecTimerToggle
  \/ HandleSecTimerReset
  \/ SecondsTick

SpecClocks == Init /\ [][NextClocks]_vars

----------------------------------------------------------------------------
(* The DataManager on its own: its methods called in any order *)

\* the most entries the score log holds when the DataManager is driven directly
MaxDirectLog == 1

\* an id no entry has
NoSuchID == 0 - 1

IdsOf(logs) == {logs[i].scoreID : i \in 1..Len(logs)}


DM_UpdateGameState ==
  \E updates \in {[teamAName |-> n] : n \in TeamNames} :
    /\ dm' = updateGameState(dm, updates)
    /\ last' = Called("updateGameState", Null)
    /\ UNCHANGED <<now, store, storeFull, timerVars, appVars>>

DM_AddScoreLog ==
  \E scorer \in Players, assist \in AssistOptions :
    /\ Len(dm.scoreLogs) < MaxDirectLog
    /\ LET scoreID == Len(dm.scoreLogs) + 1
           letter == IF scoreID % 2 = 1 THEN "A" ELSE "B"
       IN dm' = addScoreLog(dm, createLogObject(scoreID, letter, scorer, assist, "X", "Y", now))
    /\ last' = Called("addScoreLog", Null)
    /\ UNCHANGED <<now, store, storeFull, timerVars, appVars>>

DM_UpdateScoreLog ==
  \E scoreID \in IdsOf(dm.scoreLogs) \cup {NoSuchID}, scorer \in Players, assist \in AssistOptions :
    LET r == updateScoreLog(dm, scoreID, [Score |-> scorer, Assist |-> assist])
    IN /\ dm' = r.dm
       /\ last' = Called("updateScoreLog", Some(r.ret))
       /\ UNCHANGED <<now, store, storeFull, timerVars, appVars>>

\* the page with the popup up for editing the entry scoreID, as editScore()
\* leaves it
Editing(a, scoreID) ==
  [a EXCEPT !.currentEditID = Some(scoreID),
            !.popup = Some([team |-> "A", deleteShown |-> TRUE])]

\* handleSaveScore() with the popup up for editing an entry of the log:
\* updateExistingScore()
APP_UpdateExistingScore ==
  /\ IsNull(app.currentEditID)
  /\ \E scoreID \in IdsOf(dm.scoreLogs), scorer \in Players, assist \in AssistOptions :
       \E r \in {updateExistingScore(Editing(app, scoreID), dm, scorer, assist)} :
          /\ app' = r.app
          /\ dm' = r.dm
          /\ last' = Called("updateExistingScore", r.ret)
  /\ UNCHANGED <<now, store, storeFull, timerVars, phase, exports, events>>

\* the same with the popup up for an entry that is no longer in the log
APP_UpdateGoneScore ==
  \E scoreID \in {NoSuchID} \cup (IF IsNull(app.currentEditID) THEN {}
                                  ELSE {Val(app.currentEditID)}),
     scorer \in Players, assist \in AssistOptions :
    /\ scoreID \notin IdsOf(dm.scoreLogs)
    /\ \E r \in {updateExistingScore(Editing(app, scoreID), dm, scorer, assist)} :
         /\ app' = r.app
         /\ dm' = r.dm
         /\ last' = Called("updateGoneScore", r.ret)
    /\ UNCHANGED <<now, store, storeFull, timerVars, phase, exports, events>>

\* handleSaveScore() with the team, the scorer or the assist missing: the
\* popup has never been opened (no dataset.team), or a selector shows its
\* empty first option
APP_SaveRejected ==
  \E popup \in {Null, Some([team |-> "A", deleteShown |-> FALSE])},
     scorer \in NewScorers \cup {""}, assist \in AssistOptions \cup {""} :
    /\ IsNull(popup) \/ scorer = "" \/ assist = ""
    /\ \E r \in {handleSaveScore([app EXCEPT !.popup = popup, !.currentEditID = Null],
                                  dm, scorer, assist, now)} :
         /\ app' = r.app
         /\ dm' = r.dm
         /\ last' = Called("saveRejected", r.ret)
    /\ UNCHANGED <<now, store, storeFull, timerVars, phase, exports, events>>

\* handleDeleteScore() with no entry selected, or with the popup up for an
\* entry that is no longer in the log
APP_DeleteRejected ==
  \E id \in {Null, Some(NoSuchID)}, att \in Attempts(storeFull) :
    \E r \in {handleDeleteScore([app EXCEPT !.currentEditID = id], dm, store, now, att)} :
       /\ app' = r.app
       /\ dm' = r.dm
       /\ store' = r.store
       /\ last' = Called("deleteRejected", r.ret)
       /\ UNCHANGED <<now, storeFull, timerVars, phase, exports, events>>

DM_RemoveScoreLog ==
  \E scoreID \in IdsOf(dm.scoreLogs) \cup {NoSuchID} :
    LET r == removeScoreLog(dm, scoreID)
    IN /\ dm' = r.dm
       /\ last' = Called("removeScoreLog", IF IsNull(r.ret) THEN Null ELSE Some(TRUE))
       /\ UNCHANGED <<now, store, storeFull, timerVars, appVars>>

DM_ClearScoreLogs ==
  /\ dm' = clearScoreLogs(dm)
  /\ last' = Called("clearScoreLogs", Null)
  /\ UNCHANGED <<now, store, storeFull, timerVars, appVars>>

DM_ResetGameState ==
  /\ dm' = resetGameState(dm, now)
  /\ last' = Called("resetGameState", Null)
  /\ UNCHANGED <<now, store, storeFull, timerVars, appVars>>

DM_SaveCurrentState ==
  \E att \in Attempts(storeFull) :
    LET r == saveCurrentState(dm, store, now, att)
    IN /\ dm' = r.dm
       /\ store' = r.store
       /\ last' = Called("saveCurrentState", r.ret)
       /\ UNCHANGED <<now, storeFull, timerVars, appVars>>

NextData ==
  \/ QuotaChanges
  \/ DM_UpdateGameState
  \/ DM_AddScoreLog
  \/ DM_UpdateScoreLog
  \/ APP_UpdateExistingScore
  \/ APP_UpdateGoneScore
  \/ APP_SaveRejected
  \/ APP_DeleteRejected
  \/ DM_RemoveScoreLog
  \/ DM_ClearScoreLogs
  \/ DM_ResetGameState
  \/ DM_SaveCurrentState

SpecData == Init /\ [][NextData]_vars

----------------------------------------------------------------------------
(* The PersistenceManager on its own: its methods called in any order, on  *)
(* a storage that other scripts of the origin write as well                *)

\* the clock readings of the storage events: the start, two days and eight
\* days later
StoreInstants == {Epoch, Epoch + 2 * DayMs, Epoch + WeekMs + DayMs}

\* the keys and values of the direct saveToStorage() calls
PutKeys == {"timerRemainingTime"}
PutValues == {Null, Some(MinuteMs)}

\* the keys other scripts write, and what they leave there: text that is no
\* JSON, the empty text, the text "null"
ForeignKeys == {STORAGE_KEYS.GAME_STATE, STORAGE_KEYS.TEAMS_DATA}
ForeignItems == {NotJson, EmptyText, Item(Null)}

\* the fallbacks of the direct loadFromStorage() calls
Fallbacks == {Null, Some(0)}

\* what is recorded of a saveToStorage() call; removed: the keys it took away
PutRecord(key, data, att, r) ==
  Some([key |-> key, data |-> data, att |-> att, ok |-> r.ok,
        passes |-> r.passes, tries |-> r.tries,
        removed |-> {k \in StoreKeys : store[k] # Absent /\ r.store[k] = Absent}])

StoreAdvance ==
  \E t \in StoreInstants :
    /\ t > now
    /\ now' = t
    /\ UNCHANGED <<store, storeFull, timerVars, dataVars, appVars, last>>

\* another script of the origin, or the user in the developer tools, writes a key
ForeignWrite ==
  \E key \in ForeignKeys, item \in ForeignItems :
    /\ store[key] # item
    /\ store' = [store EXCEPT ![key] = item]
    /\ last' = Called("foreignWrite", Null)
    /\ UNCHANGED <<now, storeFull, timerVars, dataVars, appVars>>

PM_SaveToStorage ==
  \E key \in PutKeys, data \in PutValues, att \in Attempts(storeFull) :
    \E r \in {saveToStorage(store, key, data, now, att)} :
      /\ store' = r.store
      /\ last' = Called("saveToStorage", PutRecord(key, data, att, r))
      /\ UNCHANGED <<now, storeFull, timerVars, dataVars, appVars>>

PM_SaveGameState ==
  \E att \in Attempts(storeFull) :
    \E gameState \in {DefaultState(now)} :
      \E r \in {saveGameState(store, gameState, now, att)} :
        /\ store' = r.store
        /\ last' = Called("saveToStorage",
                          PutRecord(STORAGE_KEYS.GAME_STATE, Some(gameState), att, r))
        /\ UNCHANGED <<now, storeFull, timerVars, dataVars, appVars>>

PM_SaveTeamsData ==
  \E att \in Attempts(storeFull) :
    \E r \in {saveTeamsData(store, TeamNames, now, att)} :
      /\ store' = r.store
      /\ last' = Called("saveToStorage",
                        PutRecord(STORAGE_KEYS.TEAMS_DATA,
                                  Some([data |-> TeamNames, timestamp |-> now,
                                        expiresAt |-> now + DayMs]), att, r))
      /\ UNCHANGED <<now, storeFull, timerVars, dataVars, appVars>>

PM_LoadFromStorage ==
  \E key \in ForeignKeys \cup PutKeys, fallback \in Fallbacks :
    /\ last' = Called("loadFromStorage",
                      Some([key |-> key, fallback |-> fallback,
                            value |-> loadFromStorage(store, key, fallback)]))
    /\ UNCHANGED <<now, store, storeFull, timerVars, dataVars, appVars>>

\* new DataManager(): ret says whether the constructor threw; if it did, no
\* DataManager comes to be and the one of the model stays as it was
DM_LoadAllData ==
  \E r \in {NewDataManager(store, now)} :
    /\ dm' = IF r.threw THEN dm ELSE r.dm
    /\ store' = r.store
    /\ last' = Called("loadAllData", Some(r.threw))
    /\ UNCHANGED <<now, storeFull, timerVars, appVars>>

NextStore ==
  \/ StoreAdvance
  \/ QuotaChanges
  \/ ForeignWrite
  \/ PM_SaveToStorage
  \/ PM_SaveGameState
  \/ PM_SaveTeamsData
  \/ PM_LoadFromStorage
  \/ DM_LoadAllData

SpecStore == Init /\ [][NextStore]_vars

----------------------------------------------------------------------------
(* The page and its events: the scoring session *)

\* one more event of the session, of the MaxEvents that are followed
Counted == events < MaxEvents /\ events' = events + 1

\* the wall clock advances while the page is open, by seconds: days pass
\* only between two openings of the page; init() follows the constructor at
\* once
AdvanceSession ==
  \E t \in SessionInstants :
    /\ phase # "constructed"
    /\ t > now /\ t - now < DayMs
    /\ now' = t
    /\ UNCHANGED <<store, storeFull, timerVars, dataVars, appVars, last>>

\* init() up to its wait for the roster: the auto-save interval is started and
\* checkAndRestoreState() runs
AppInit ==
  /\ Counted
  /\ phase = "constructed"
  /\ \E shouldRestore \in BOOLEAN :
       \E r \in {checkAndRestoreState(app, dm, now, shouldRestore)} :
          /\ app' = r.app
          /\ dm' = r.dm
          /\ last' = Called("init", r.answer)
  /\ phase' = "loading"
  /\ UNCHANGED <<now, store, storeFull, timerVars, exports>>

\* the page is loaded again, at once or on a later day: new ScorekeeperApp()
\* and init() up to its wait for the roster; whatever the old page was
\* waiting for is gone
PageLoad ==
  /\ Counted
  /\ phase # "constructed"
  /\ \E t \in {now} \cup {o \in OpeningInstants : o > now},
        shouldRestore \in BOOLEAN, plan1 \in SavePlans(storeFull), plan2 \in SavePlans(storeFull) :
       \E c \in {Construct(store, t, plan1, plan2)} :
         \E r \in {checkAndRestoreState(c.app, c.dm, t, shouldRestore)} :
           /\ now' = t
           /\ app' = r.app
           /\ dm' = r.dm
           /\ timer' = c.timer
           /\ secondsTimer' = c.secondsTimer
           /\ store' = c.store
           /\ started' = IF /\ timer.isRunning /\ c.timer.isRunning
                              /\ loadFromStorage(store, STORAGE_KEYS.TIMER_RUNNING, Null) = Some(TRUE)
                              /\ loadFromStorage(store, "timerEndTime", Null) = timer.endTime
                           THEN started ELSE Null
           /\ last' = Called("pageLoad", r.answer)
  /\ phase' = "loading"
  /\ exports' = << >>
  /\ UNCHANGED storeFull

\* fetchTeams() settles and init() runs to its end: the roster is stored and
\* shown, the listeners of the page are attached
TeamsLoaded ==
  /\ Counted
  /\ phase = "loading"
  /\ \E fetched \in FetchResults, att \in Attempts(storeFull) :
       \E r \in {loadTeams(app, dm, store, now, fetched, att)} :
          /\ app' = r.app
          /\ dm' = r.dm
          /\ store' = r.store
          /\ last' = Called("loadTeams", Some(~IsNull(fetched)))
  /\ phase' = "ready"
  /\ UNCHANGED <<now, storeFull, timerVars, exports>>

\* the auto-save interval of startAutoSave() fires
AutoSaveTick ==
  /\ Counted
  /\ phase \in {"loading", "ready"}
  /\ \E att \in Attempts(storeFull) :
       \E r \in {autoSave(app, dm, store, now, att)} :
          /\ dm' = r.dm
          /\ store' = r.store
          /\ last' = Called("autoSave", r.ret)
  /\ UNCHANGED <<now, storeFull, timerVars, app, phase, exports>>

\* visibilitychange with the page hidden
VisibilityHidden ==
  /\ Counted
  /\ phase = "ready"
  /\ \E att \in Attempts(storeFull) :
       \E r \in {autoSave(app, dm, store, now, att)} :
          /\ dm' = r.dm
          /\ store' = r.store
          /\ last' = Called("autoSave", r.ret)
  /\ UNCHANGED <<now, storeFull, timerVars, app, phase, exports>>

\* beforeunload: handleBeforeUnload
HandleBeforeUnload ==
  /\ Counted
  /\ phase \in {"loading", "ready"}
  /\ \E att \in Attempts(storeFull) :
       \E r \in {autoSave(app, dm, store, now, att)} :
          /\ dm' = r.dm
          /\ store' = r.store
          /\ last' = Called("autoSave", r.ret)
  /\ UNCHANGED <<now, storeFull, timerVars, app, phase, exports>>

\* the user picks another team in one of the two selectors
TeamChange ==
  /\ Counted
  /\ phase = "ready" /\ IsNull(app.popup)
  /\ \E teamID \in {"teamA", "teamB"}, name \in app.options \cup {""},
        att \in Attempts(storeFull) :
       LET a1 == IF teamID = "teamA" THEN [app EXCEPT !.teamA = name]
                                     ELSE [app EXCEPT !.teamB = name]
           r == autoSave(a1, dm, store, now, att)
       IN /\ a1 # app
          /\ app' = a1
          /\ dm' = r.dm
          /\ store' = r.store
          /\ last' = Called("teamChange", r.ret)
  /\ UNCHANGED <<now, storeFull, timerVars, phase, exports>>

\* the user picks the other starting side in the abbaStart selector
HandleAbbaChange ==
  /\ Counted
  /\ phase = "ready" /\ IsNull(app.popup)
  /\ \E value \in {"M", "F"} \ {app.abbaStart}, att \in Attempts(storeFull) :
       \E r \in {handleAbbaChange(app, dm, store, now, value, att)} :
          /\ app' = r.app
          /\ dm' = r.dm
          /\ store' = r.store
          /\ last' = Called("abbaChange", r.ret)
  /\ UNCHANGED <<now, storeFull, timerVars, phase, exports>>

\* click on "add score" of team A or team B
OpenPopup ==
  /\ Counted
  /\ phase = "ready" /\ IsNull(app.popup)
  /\ \E team \in {"A", "B"} : app' = openPopup(app, team)
  /\ last' = Called("openPopup", Null)
  /\ UNCHANGED <<now, store, storeFull, timerVars, dataVars, phase, exports>>

\* click on the edit button of a row of the table
EditScore ==
  /\ Counted
  /\ phase = "ready" /\ IsNull(app.popup)
  /\ \E i \in 1..Len(app.table) :
       /\ app' = editScore(app, dm, app.table[i].scoreID)
       /\ last' = Called("editScore", Some(~IsNull(getScoreLog(dm, app.table[i].scoreID))))
  /\ UNCHANGED <<now, store, storeFull, timerVars, dataVars, phase, exports>>

\* click on the button of the popup: handleSaveScore
SaveScore ==
  /\ Counted
  /\ phase = "ready" /\ ~IsNull(app.popup)
  /\ IsNull(app.currentEditID) => Len(dm.scoreLogs) < MaxLog
  /\ \E scorer \in (IF IsNull(app.currentEditID) THEN NewScorers ELSE Players),
        assist \in AssistOptions :
       \E r \in {handleSaveScore(app, dm, scorer, assist, now)} :
          /\ app' = r.app
          /\ dm' = r.dm
          /\ last' = Called(IF IsNull(app.currentEditID) THEN "addScore" ELSE "updateScore",
                            r.ret)
  /\ UNCHANGED <<now, store, storeFull, timerVars, phase, exports>>

\* click on the delete button of the popup: handleDeleteScore
DeleteScore ==
  /\ Counted
  /\ phase = "ready" /\ ~IsNull(app.popup) /\ Val(app.popup).deleteShown
  /\ \E att \in Attempts(storeFull) :
       \E r \in {handleDeleteScore(app, dm, store, now, att)} :
          /\ app' = r.app
          /\ dm' = r.dm
          /\ store' = r.store
          /\ last' = Called("deleteScore", r.ret)
  /\ UNCHANGED <<now, storeFull, timerVars, phase, exports>>

\* click on the close button of the popup or on the overlay
ClosePopup ==
  /\ Counted
  /\ phase = "ready" /\ ~IsNull(app.popup)
  /\ app' = closePopup(app)
  /\ last' = Called("closePopup", Null)
  /\ UNCHANGED <<now, store, storeFull, timerVars, dataVars, phase, exports>>

\* click on submit: handleSubmitScore runs up to its await
SubmitStart ==
  /\ Counted
  /\ phase = "ready" /\ IsNull(app.popup)
  /\ Len(exports) < MaxExports
  /\ IF Len(dm.scoreLogs) = 0
       THEN /\ last' = Called("submit", Some(FALSE))
            /\ UNCHANGED exports
       ELSE /\ exports' = Append(exports, ExportOf(dm))
            /\ last' = Called("submit", Null)
  /\ UNCHANGED <<now, store, storeFull, timerVars, dataVars, app, phase>>

\* submitScores() settles and handleSubmitScore runs to its end
SubmitFinish ==
  /\ Counted
  /\ \E i \in 1..Len(exports), att \in Attempts(storeFull), outcome \in SubmitOutcomes :
       \E r \in {finishSubmitScore(app, dm, store, now, att, exports[i], outcome)} :
          /\ exports' = RemoveAt(exports, i)
          /\ app' = r.app
          /\ dm' = r.dm
          /\ store' = r.store
          /\ last' = [op |-> "submitDone", ret |-> r.ret,
                      notice |-> r.notice, download |-> r.download]
  /\ UNCHANGED <<now, storeFull, timerVars, phase>>

Next ==
  \/ AdvanceSession
  \/ AppInit
  \/ PageLoad
  \/ TeamsLoaded
  \/ AutoSaveTick
  \/ VisibilityHidden
  \/ HandleBeforeUnload
  \/ TeamChange
  \/ HandleAbbaChange
  \/ OpenPopup
  \/ EditScore
  \/ SaveScore
  \/ DeleteScore
  \/ ClosePopup
  \/ SubmitStart
  \/ SubmitFinish

Spec == Init /\ [][Next]_vars

-----------------------------------------------------------------------------
(* The CSV functions of Utils.  A text is the sequence of its characters.     *)

\* the characters of the field texts: the four toCSVLine() looks for, and a
\* letter
CsvChars == {",", "\"", "\n", "\r", "a"}

\* the longest field text, and the most fields of a line
MaxFieldLen == 2
MaxFields == 2

\* the texts of at most n characters of the set chars
TextsOver(chars, n) == UNION {[1..k -> chars] : k \in 0..n}

\* the field lists handed to toCSVLine()
FieldLists == UNION {[1..k -> TextsOver(CsvChars, MaxFieldLen)] : k \in 1..MaxFields}

\* s.replace(/"/g, '""')
RECURSIVE DoubleQuotes(_)
DoubleQuotes(s) ==
  IF s = << >> THEN << >>
  ELSE (IF Head(s) = "\"" THEN <<"\"", "\"">> ELSE <<Head(s)>>) \o DoubleQuotes(Tail(s))

\* /[",\n\r]/.test(s)
NeedsQuotes(s) == \E i \in 1..Len(s) : s[i] \in {"\"", ",", "\n", "\r"}

\* the text toCSVLine() makes of one field
CSVField(s) == IF NeedsQuotes(s) THEN <<"\"">> \o DoubleQuotes(s) \o <<"\"">> ELSE s

\* toCSVLine(fields): the texts of the fields joined by commas
RECURSIVE toCSVLine(_)
toCSVLine(fields) ==
  IF Len(fields) = 0 THEN << >>
  ELSE IF Len(fields) = 1 THEN CSVField(fields[1])
       ELSE CSVField(fields[1]) \o <<",">> \o toCSVLine(Tail(fields))

\* parseCSV(text) from its character i on: the loop and the push after it
RECURSIVE parseCSV_from(_, _, _, _, _, _)
parseCSV_from(text, i, rows, row, cell, inQuotes) ==
  IF i > Len(text)
    THEN IF cell # << >> \/ Len(row) > 0 THEN Append(rows, Append(row, cell)) ELSE rows
    ELSE LET char == text[i]
             next == IF i + 1 <= Len(text) THEN Some(text[i + 1]) ELSE Null
         IN IF char = "\""
              THEN IF inQuotes /\ next = Some("\"")
                     THEN parseCSV_from(text, i + 2, rows, row, Append(cell, "\""), inQuotes)
                     ELSE parseCSV_from(text, i + 1, rows, row, cell, ~inQuotes)
            ELSE IF char = "," /\ ~inQuotes
              THEN parseCSV_from(text, i + 1, rows, Append(row, cell), << >>, inQuotes)
            ELSE IF char \in {"\n", "\r"} /\ ~inQuotes
              THEN IF cell # << >> \/ Len(row) > 0
                     THEN parseCSV_from(text, i + 1, Append(rows, Append(row, cell)),
                                        << >>, << >>, inQuotes)
                     ELSE parseCSV_from(text, i + 1, rows, row, cell, inQuotes)
            ELSE parseCSV_from(text, i + 1, rows, row,
                               IF char # "\r" THEN Append(cell, char) ELSE cell, inQuotes)

\* parseCSV(text)
parseCSV(text) == parseCSV_from(text, 1, << >>, << >>, << >>, FALSE)

\* s.trim(), the blank being the one white space of the cell texts
RECURSIVE trim(_)
trim(s) ==
  IF s = << >> THEN s
  ELSE IF Head(s) = " " THEN trim(Tail(s))
  ELSE IF s[Len(s)] = " " THEN trim(SubSeq(s, 1, Len(s) - 1))
  ELSE s

\* (row[colIdx] || '').trim(), colIdx counted from 1 here
CellOf(row, colIdx) == IF colIdx \in 1..Len(row) THEN trim(row[colIdx]) ELSE << >>

\* the players csvToTeamsMap() collects for the header entry colIdx
PlayersOf(rows, colIdx) ==
  SelectSeq([r \in 1..(Len(rows) - 1) |-> CellOf(rows[r + 1], colIdx)],
            LAMBDA val : val # << >>)

\* csvToTeamsMap(rows): the object as a function of its keys; a name that
\* comes twice keeps the players assigned last
csvToTeamsMap(rows) ==
  IF Len(rows) = 0 THEN << >>
  ELSE LET header == SelectSeq([c \in 1..Len(rows[1]) |-> trim(rows[1][c])],
                               LAMBDA h : h # << >>)
       IN [teamName \in {header[c] : c \in 1..Len(header)} |->
             PlayersOf(rows, CHOOSE c \in 1..Len(header) :
                               /\ header[c] = teamName
                               /\ \A c2 \in (c + 1)..Len(header) : header[c2] # teamName)]

\* the header cells and the player cells of the roster tables
HeaderCells == {<< >>, <<" ">>, <<"A">>, <<"B">>, <<" ", "A">>}
PlayerCells == {<< >>, <<"x">>, <<"y", " ">>}

\* the columns and the player rows of a roster table
MaxColumns == 2
MaxPlayerRows == 2

\* the rectangular roster tables: a header row and the player rows
RosterTables ==
  {<<h>> \o body : h \in [1..MaxColumns -> HeaderCells],
                   body \in [1..MaxPlayerRows -> [1..MaxColumns -> PlayerCells]]}

-----------------------------------------------------------------------------
(* The CSV functions applied to every input of the bounded sets *)

\* a page as it is first opened, about to write a line of fields or to read
\* a roster table
InitCsv ==
  /\ now = Epoch
  /\ storeFull = FALSE
  /\ LET plan == CHOOSE q \in SavePlans(FALSE) : TRUE
         c == Construct(EmptyStore, Epoch, plan, plan)
     IN /\ dm = c.dm /\ timer = c.timer /\ store = c.store /\ app = c.app
        /\ secondsTimer = c.secondsTimer
  /\ phase = "constructed"
  /\ exports = << >>
  /\ events = 0
  /\ started = Null
  /\ last \in {Called("fields", f) : f \in FieldLists}
              \cup {Called("rows", t) : t \in RosterTables}

\* Utils.toCSVLine(fields)
Utils_toCSVLine ==
  /\ last.op = "fields"
  /\ last' = Called("toCSVLine", [fields |-> last.ret, line |-> toCSVLine(last.ret)])
  /\ UNCHANGED <<now, store, storeFull, timerVars, dataVars, appVars>>

\* Utils.parseCSV(text) of the line written
Utils_parseCSV ==
  /\ last.op = "toCSVLine"
  /\ last' = Called("parseCSV", [fields |-> last.ret.fields, line |-> last.ret.line,
                                 rows |-> parseCSV(last.ret.line)])
  /\ UNCHANGED <<now, store, storeFull, timerVars, dataVars, appVars>>

\* Utils.csvToTeamsMap(rows)
Utils_csvToTeamsMap ==
  /\ last.op = "rows"
  /\ last' = Called("csvToTeamsMap", [rows |-> last.ret, teams |-> csvToTeamsMap(last.ret)])
  /\ UNCHANGED <<now, store, storeFull, timerVars, dataVars, appVars>>

NextCsv ==
  \/ Utils_toCSVLine
  \/ Utils_parseCSV
  \/ Utils_csvToTeamsMap

SpecCsv == InitCsv /\ [][NextCsv]_vars

\* the callback of the setInterval() of startAutoSave(): it is run again and
\* again for as long as the page is open, whatever else happens
AutoSaveInterval ==
  /\ phase \in {"loading", "ready"}
  /\ \E att \in Attempts(storeFull) :
       \E r \in {autoSave(app, dm, store, now, att)} :
          /\ dm' = r.dm
          /\ store' = r.store
          /\ last' = Called("autoSave", r.ret)
  /\ UNCHANGED <<now, storeFull, timerVars, app, phase, exports, events>>

\* one page that records points while the storage quota comes and goes
NextAutoSave ==
  \/ AdvanceSession
  \/ QuotaChanges
  \/ AppInit
  \/ TeamsLoaded
  \/ OpenPopup
  \/ SaveScore
  \/ AutoSaveInterval

\* the interval keeps firing: a run of the callback that would change
\* something is made in the end
SpecAutoSave == Init /\ [][NextAutoSave]_vars /\ WF_vars(AutoSaveInterval)

-----------------------------------------------------------------------------
(* clearAllData, and the page that is loaded after it *)

\* clearAllData(): the keys named in CONFIG.STORAGE_KEYS are removed; the
\* application keeps nothing in sessionStorage
clearAllData(st) ==
  [k \in StoreKeys |->
     IF k \in {STORAGE_KEYS[n] : n \in DOMAIN STORAGE_KEYS} THEN Absent ELSE st[k]]

\* persistenceManager.clearAllData() is called
PM_ClearAllData ==
  /\ store' = clearAllData(store)
  /\ last' = Called("clearAllData", Null)
  /\ UNCHANGED <<now, storeFull, timerVars, dataVars, appVars>>

\* the page is loaded again: new ScorekeeperApp() builds its managers from
\* what is stored
AppReload ==
  \E plan1 \in SavePlans(storeFull), plan2 \in SavePlans(storeFull) :
    \E c \in {Construct(store, now, plan1, plan2)} :
       /\ dm' = c.dm
       /\ timer' = c.timer
       /\ secondsTimer' = c.secondsTimer
       /\ app' = c.app
       /\ store' = c.store
       /\ started' = Null
       /\ phase' = "constructed"
       /\ exports' = << >>
       /\ last' = Called("reload", Null)
       /\ UNCHANGED <<now, storeFull, events>>

\* a session whose clock is used and whose points are saved, cleared and
\* loaded again at any moment
NextClear ==
  \/ Advance
  \/ HandleTimerToggle
  \/ HandleTimerReset
  \/ TimerTick
  \/ DM_AddScoreLog
  \/ DM_SaveCurrentState
  \/ PM_ClearAllData
  \/ AppReload

SpecClear == Init /\ [][NextClear]_vars

----------------------------------------------------------------------------
(* The DataManager: properties *)

\* the snapshot under the gameState key, null when there is none
StoredSnapshot == loadFromStorage(store, STORAGE_KEYS.GAME_STATE, Null)

\* C7: saveCurrentState() writes the snapshot only if the dirty flag is set;
\* a write that succeeds clears the flag and leaves the snapshot stored; a
\* write that fails returns false and leaves the flag set; the snapshot in
\* memory (gameState, scoreLogs) is the same before and after.
C7_FlushStep ==
  DM_SaveCurrentState =>
    /\ ~dm.isDirty => (store' = store /\ dm' = dm /\ IsNull(last'.ret))
    /\ dm.isDirty => ~IsNull(last'.ret)
    /\ (dm.isDirty /\ last'.ret = Some(TRUE)) =>
         /\ ~dm'.isDirty
         /\ StoredSnapshot' = Some([dm.gameState EXCEPT !.timestamp = now])
    /\ (dm.isDirty /\ last'.ret = Some(FALSE)) => dm'.isDirty
    /\ dm'.gameState = dm.gameState
    /\ dm'.scoreLogs = dm.scoreLogs

C7_FlushContract == [][C7_FlushStep]_vars

\* C7 witness: a write has failed and the session is still dirty
C7_Witness ==
  /\ last = Called("saveCurrentState", Some(FALSE))
  /\ dm.isDirty
  /\ Len(dm.scoreLogs) > 0

\* C8: of two saveCurrentState() calls in a row, the first one writing the
\* snapshot, the second one writes nothing: one write in all.
C8_SecondFlushStep ==
  (DM_SaveCurrentState /\ last = Called("saveCurrentState", Some(TRUE))) =>
    (store' = store /\ IsNull(last'.ret))

C8_FlushTwiceWritesOnce == [][C8_SecondFlushStep]_vars

\* C8 witness: the second of two calls in a row has returned without writing,
\* the snapshot of the first one is what is stored
C8_Witness ==
  /\ last = Called("saveCurrentState", Null)
  /\ ~dm.isDirty
  /\ ~IsNull(StoredSnapshot)
  /\ Val(StoredSnapshot).scoreLogs = dm.scoreLogs
  /\ Len(dm.scoreLogs) > 0

MutatingCalls ==
  {"updateGameState", "addScoreLog", "updateScoreLog", "removeScoreLog",
   "clearScoreLogs", "resetGameState"}

\* the last call changed the session: updateScoreLog() and removeScoreLog()
\* only when they found the entry
Mutated ==
  /\ last.op \in MutatingCalls
  /\ last.op \in {"updateScoreLog", "removeScoreLog"} => last.ret = Some(TRUE)

\* C10: after every mutating call the dirty flag is set, and the flag goes
\* from set to clear only in a saveCurrentState() that returns true.
C10_ClearedOnlyByFlush ==
  (dm.isDirty /\ ~dm'.isDirty) => last' = Called("saveCurrentState", Some(TRUE))

C10_DirtyFlag == [](Mutated => dm.isDirty) /\ [][C10_ClearedOnlyByFlush]_vars

\* C10 witness: a flush has cleared the flag that an edit of an entry had set
C10_Witness ==
  /\ last = Called("saveCurrentState", Some(TRUE))
  /\ ~dm.isDirty
  /\ \E i \in 1..Len(dm.scoreLogs) : dm.scoreLogs[i].Score = "q"

\* C21: an edit of an id that no entry of the score log has reports
\* "not found" (updateScoreLog() returns false, updateExistingScore() leaves
\* the popup up) and changes nothing: the score log, the snapshot in memory,
\* the dirty flag, the two scores and the table are as before; an edit of an
\* id that an entry has does not report "not found".
C21_EditMissStep ==
  /\ (last'.op = "updateScoreLog" /\ DM_UpdateScoreLog /\ last'.ret = Some(FALSE)) =>
       dm' = dm
  /\ (last'.op = "updateExistingScore" /\ APP_UpdateExistingScore) =>
       last'.ret = Some(TRUE)
  /\ (last'.op = "updateGoneScore" /\ APP_UpdateGoneScore) =>
       /\ last'.ret = Some(FALSE)
       /\ dm'.scoreLogs = dm.scoreLogs
       /\ dm'.gameState = dm.gameState
       /\ dm'.isDirty = dm.isDirty
       /\ app'.teamAScore = app.teamAScore
       /\ app'.teamBScore = app.teamBScore
       /\ app'.table = app.table
       /\ ~IsNull(app'.popup)
       /\ store' = store

C21_EditMissHasNoEffect == [][C21_EditMissStep]_vars

\* C21 witness: with one point in the log, stored and the session clean, an
\* edit of an id no entry has was refused
C21_Witness ==
  /\ last = Called("updateGoneScore", Some(FALSE))
  /\ app.currentEditID = Some(NoSuchID)
  /\ Len(dm.scoreLogs) = 1
  /\ ~dm.isDirty
  /\ ~IsNull(StoredSnapshot)

----------------------------------------------------------------------------
(* The PersistenceManager: properties *)

\* the saveToStorage() call just made
Put == Val(last'.ret)

\* the try block of the call threw: the write of the key or that of lastSave
FirstFailed(p) == ~(p.att[1] /\ p.att[2])

\* the roster cache is stored and has expired; the snapshot is stored and is
\* older than 7 days
RosterExpired(st, nw) ==
  LET t == loadFromStorage(st, STORAGE_KEYS.TEAMS_DATA, Null)
  IN ~IsNull(t) /\ nw > Val(t).expiresAt

SnapshotStale(st, nw) ==
  LET g == loadFromStorage(st, STORAGE_KEYS.GAME_STATE, Null)
  IN ~IsNull(g) /\ nw - Val(g).timestamp > WeekMs

\* C11: a saveToStorage() whose first attempt fails makes one cleanup pass,
\* which removes the roster cache if it has expired and the snapshot if it is
\* older than 7 days and nothing else, and tries the write once more; one
\* whose first attempt goes through makes no pass and no second try; it
\* returns false exactly if both attempts fail.
C11_PutStep ==
  (/\ last'.op = "saveToStorage"
   /\ PM_SaveToStorage \/ PM_SaveGameState \/ PM_SaveTeamsData) =>
    /\ Put.ok = ~(FirstFailed(Put) /\ ~Put.att[3])
    /\ Put.passes = (IF FirstFailed(Put) THEN 1 ELSE 0)
    /\ Put.tries = (IF FirstFailed(Put) THEN 2 ELSE 1)
    /\ Put.ok => store'[Put.key] = Item(Put.data)
    /\ \A k \in StoreKeys \ {Put.key, STORAGE_KEYS.LAST_SAVE} :
         store'[k] =
           IF /\ FirstFailed(Put)
              /\ \/ k = STORAGE_KEYS.TEAMS_DATA /\ RosterExpired(store, now)
                 \/ k = STORAGE_KEYS.GAME_STATE /\ SnapshotStale(store, now)
             THEN Absent
             ELSE store[k]

C11_PutRetriesOnce == [][C11_PutStep]_vars

\* C11 witness: the first attempt failed, the pass removed the expired roster
\* cache and the stale snapshot, the second attempt failed too
C11_Witness ==
  /\ last.op = "saveToStorage"
  /\ ~Val(last.ret).ok
  /\ Val(last.ret).key \in PutKeys
  /\ Val(last.ret).passes = 1 /\ Val(last.ret).tries = 2
  /\ Val(last.ret).removed = {STORAGE_KEYS.TEAMS_DATA, STORAGE_KEYS.GAME_STATE}

\* the loadFromStorage() call just made
Got == Val(last'.ret)

\* C12: loadFromStorage() of a missing key, or of a key whose text cannot be
\* parsed, returns the fallback, and no loadFromStorage() changes the storage.
C12_GetStep ==
  (last'.op = "loadFromStorage" /\ PM_LoadFromStorage) =>
    /\ store' = store
    /\ store[Got.key] \in {Absent, NotJson} => Got.value = Got.fallback

C12_GetFallsBack == [][C12_GetStep]_vars

\* C12 witness: text that is no JSON was read and the fallback 0 came back
C12_Witness ==
  /\ last.op = "loadFromStorage"
  /\ store[Val(last.ret).key] = NotJson
  /\ Val(last.ret).fallback = Some(0)
  /\ Val(last.ret).value = Some(0)

\* what is under the snapshot key is a snapshot object
HoldsSnapshot(st) ==
  /\ st[STORAGE_KEYS.GAME_STATE] \notin {Absent, NotJson, EmptyText}
  /\ ~IsNull(st[STORAGE_KEYS.GAME_STATE][1])

\* C13: whatever is under the snapshot key, the DataManager constructor does
\* not throw, and if it is no snapshot object the session loaded has the
\* scores 0:0 and an empty score log.
C13_LoadAlwaysSucceeds ==
  last.op = "loadAllData" =>
    /\ last.ret = Some(FALSE)
    /\ ~HoldsSnapshot(store) =>
         /\ dm.gameState.teamAScore = 0 /\ dm.gameState.teamBScore = 0
         /\ dm.gameState.scoreLogs = << >>
         /\ dm.scoreLogs = << >>

----------------------------------------------------------------------------
(* The scoring session: properties *)

\* how many entries were added from the popup of this side
CountSide(logs, side) == Cardinality({i \in 1..Len(logs) : logs[i].side = side})

\* how many entries carry this team name
CountTeam(logs, name) == Cardinality({i \in 1..Len(logs) : logs[i].Team = name})

\* C1: in every state of the session teamAScore is the number of entries
\* recorded for team A, teamBScore the number recorded for team B, and the two
\* add up to the length of the score log.
C1_ScoresMatchLog ==
  /\ app.teamAScore = CountSide(dm.scoreLogs, "A")
  /\ app.teamBScore = CountSide(dm.scoreLogs, "B")
  /\ app.teamAScore + app.teamBScore = Len(dm.scoreLogs)

\* rebuildTableAndCounters() has just run: at the end of a delete that found
\* its entry, and at the end of an export
Rebuilt == last = Called("deleteScore", Some(TRUE)) \/ last.op = "submitDone"

\* C2: after rebuildTableAndCounters() the two scores add up to the length of
\* the log, teamAScore counts the entries that carry the name now selected for
\* team A and teamBScore those that carry the name now selected for team B.
C2_RebuildRecounts ==
  Rebuilt =>
    /\ app.teamAScore + app.teamBScore = Len(dm.scoreLogs)
    /\ app.teamAScore = CountTeam(dm.scoreLogs, app.teamA)
    /\ app.teamBScore = CountTeam(dm.scoreLogs, app.teamB)

\* one of the three auto-save triggers runs: the interval, the page being
\* hidden, the page being left
AutoSaveTrigger == AutoSaveTick \/ VisibilityHidden \/ HandleBeforeUnload

\* C9: an auto-save trigger writes the snapshot only if the session was dirty
\* when it fired, and the second of two triggers in a row, with nothing done
\* by the user in between, writes nothing.
C9_TriggerStep ==
  AutoSaveTrigger =>
    /\ ~dm.isDirty => IsNull(last'.ret)
    /\ last = Called("autoSave", Some(TRUE)) => IsNull(last'.ret)

C9_AutoSaveOnlyWhenDirty == [][C9_TriggerStep]_vars

\* the step is one event of the session, the one named op
StepOf(op) == events' = events + 1 /\ last'.op = op

\* the page starts: init() of the first page, or a page load
Startup == StepOf("init") \/ StepOf("pageLoad")

\* the snapshot loadAllData() hands to the starting page
Loaded ==
  IF last'.op = "init" THEN dm.gameState ELSE Val(loadGameState(store, now'))

\* checkAndRestoreState() takes a snapshot of this time for one to restore
Recent(gameState, nw) == gameState.timestamp # 0 /\ nw - gameState.timestamp < DayMs

\* C14: a page load that finds a snapshot older than 7 days does not take it
\* over: the session starts with the scores 0:0 and an empty score log.
C14_StaleStep ==
  (StepOf("pageLoad") /\ SnapshotStale(store, now')) =>
    /\ dm'.scoreLogs = << >>
    /\ dm'.gameState.scoreLogs = << >>
    /\ dm'.gameState.teamAScore = 0 /\ dm'.gameState.teamBScore = 0
    /\ app'.teamAScore = 0 /\ app'.teamBScore = 0

C14_StaleSnapshotDiscarded == [][C14_StaleStep]_vars

\* C15: a starting page that loads a snapshot less than 24 hours old asks the
\* user; after the answer "discard" the session holds the defaults and an
\* empty score log, nothing of it is shown, and the dirty flag is set.
C15_DiscardStep ==
  Startup =>
    /\ Recent(Loaded, now') => ~IsNull(last'.ret)
    /\ last'.ret = Some(FALSE) =>
         /\ dm'.gameState = DefaultState(now')
         /\ dm'.scoreLogs = << >>
         /\ dm'.isDirty
         /\ app'.teamAScore = 0 /\ app'.teamBScore = 0
         /\ app'.table = << >>

C15_DiscardResets == [][C15_DiscardStep]_vars

\* C15 witness: a stored log of one point has been discarded at a page load
C15_Witness ==
  /\ last = Called("pageLoad", Some(FALSE))
  /\ ~IsNull(StoredSnapshot)
  /\ Len(Val(StoredSnapshot).scoreLogs) = 1
  /\ dm.scoreLogs = << >>
  /\ dm.isDirty

\* the handlers setupEventListeners() attaches for adding, editing and deleting
HandlerOps == {"openPopup", "editScore", "addScore", "updateScore", "deleteScore"}

\* C16: loadTeams() runs only on a page whose checkAndRestoreState() is over,
\* with the answer applied (the scores and the table restored, or the session
\* reset), and a handler for adding, editing or deleting runs only once
\* loadTeams() is over as well.
C16_OrderStep ==
  /\ (events' = events + 1 /\ last'.op \in HandlerOps) => phase = "ready"
  /\ StepOf("loadTeams") => phase = "loading"
  /\ (phase' = "loading" /\ phase # "loading") => Startup
  /\ (phase' = "ready" /\ phase # "ready") => (phase = "loading" /\ StepOf("loadTeams"))
  /\ Startup =>
       /\ phase' = "loading"
       /\ last'.ret = Some(TRUE) =>
            /\ app'.teamAScore = Loaded.teamAScore
            /\ app'.teamBScore = Loaded.teamBScore
            /\ Len(app'.table) = Len(Loaded.scoreLogs)
       /\ last'.ret = Some(FALSE) => (dm'.isDirty /\ dm'.scoreLogs = << >>)

C17_RestoreStep ==
  (Startup /\ last'.ret = Some(TRUE) /\ ~IsNull(StoredSnapshot)) =>
    LET snapshot == Val(StoredSnapshot)
    IN /\ app'.teamAScore = snapshot.teamAScore
       /\ app'.teamBScore = snapshot.teamBScore
       /\ dm'.scoreLogs = snapshot.scoreLogs
       /\ app'.abbaStart = (IF IsNull(snapshot.abbaStart) THEN "M"
                            ELSE Val(snapshot.abbaStart))

C17_RestoreEqualsSnapshot == [][C17_RestoreStep]_vars

\* C17 witness: a session with starting side F and one point has been restored
C17_Witness ==
  /\ last = Called("pageLoad", Some(TRUE))
  /\ app.abbaStart = "F"
  /\ Len(dm.scoreLogs) = 1
  /\ app.teamAScore + app.teamBScore = 1
  /\ app.table = <<[scoreID |-> dm.scoreLogs[1].scoreID, abba |-> "F"]>>

\* the markers of the points 0..7 for the two starting sides
MarkersFromM == <<"M", "F", "F", "M", "M", "F", "F", "M">>
MarkersFromF == <<"F", "M", "M", "F", "F", "M", "M", "F">>

\* C18: computeAbbaForIndex() gives M,F,F,M,M,F,F,M for the start M and
\* F,M,M,F,F,M,M,F for the start F, and in every state each row of the table
\* is the row of the log entry of its index and shows the marker of that
\* index for the starting side of the page.
C18_MarkersFollowLog ==
  /\ \A i \in 0..7 :
       /\ computeAbbaForIndex("M", i) = MarkersFromM[i + 1]
       /\ computeAbbaForIndex("F", i) = MarkersFromF[i + 1]
  /\ \A k \in 1..Len(app.table) :
       /\ k <= Len(dm.scoreLogs)
       /\ app.table[k].scoreID = dm.scoreLogs[k].scoreID
       /\ app.table[k].abba = computeAbbaForIndex(app.abbaStart, k - 1)

\* C19: no two entries of the score log have the same scoreID.
C19_UniqueIds ==
  \A i \in 1..Len(dm.scoreLogs), j \in 1..Len(dm.scoreLogs) :
    i # j => dm.scoreLogs[i].scoreID # dm.scoreLogs[j].scoreID

\* what of an entry is history: its id, match, time and team
Immutable(e) ==
  [scoreID |-> e.scoreID, GameID |-> e.GameID, Time |-> e.Time, Team |-> e.Team]

\* C20: a step of the session leaves id, match, time and team of every entry
\* of the score log as they are: on a page that stays, the log keeps its
\* entries, gets one more at its end, loses one, or is emptied; an edit
\* changes scorer and assist of the entry with the edited id and nothing
\* else; a save stores the entries as they are and a page load takes them
\* as they are stored.
C20_FrameStep ==
  LET old == dm.scoreLogs
      new == dm'.scoreLogs
  IN /\ ~StepOf("pageLoad") =>
          /\ Len(new) <= Len(old) + 1
          /\ Len(new) = Len(old) =>
               \A i \in 1..Len(old) : Immutable(new[i]) = Immutable(old[i])
          /\ Len(new) = Len(old) + 1 => SubSeq(new, 1, Len(old)) = old
          /\ Len(new) < Len(old) =>
               (new = << >> \/ \E k \in 1..Len(old) : new = RemoveAt(old, k))
     /\ (StepOf("updateScore") /\ new # old) =>
          \E k \in 1..Len(old) :
            /\ old[k].scoreID = Val(app.currentEditID)
            /\ \A i \in 1..Len(old) \ {k} : new[i] = old[i]
     /\ StepOf("pageLoad") =>
          (new = << >> \/ (~IsNull(StoredSnapshot) /\ new = Val(StoredSnapshot).scoreLogs))
     /\ (StoredSnapshot' # StoredSnapshot /\ ~IsNull(StoredSnapshot')) =>
          Val(StoredSnapshot').scoreLogs = new

C20_HistoryImmutable == [][C20_FrameStep]_vars

\* C20 witness: the scorer of a point of team X has been edited after side A
\* went over to team Y; the entry is still one of team X
C20_Witness ==
  /\ last = Called("updateScore", Some(TRUE))
  /\ app.teamA = "Y"
  /\ \E i \in 1..Len(dm.scoreLogs) :
       /\ dm.scoreLogs[i].Score = "q"
       /\ dm.scoreLogs[i].Team = "X"
       /\ dm.scoreLogs[i].GameID[1] = "X"

\* C22: a delete of an id that an entry of the score log has removes one
\* entry with that id and keeps the others in their order; afterwards the
\* table has one row per remaining entry, in the order of the log and with
\* the marker of its index, and the two scores are the numbers of remaining
\* entries of the team selected for A and of the team selected for B.
C22_DeleteStep ==
  StepOf("deleteScore") =>
    LET old == dm.scoreLogs
        new == dm'.scoreLogs
    IN /\ (~IsNull(app.currentEditID) /\ Val(app.currentEditID) \in IdsOf(old)) =>
            last'.ret = Some(TRUE)
       /\ last'.ret = Some(TRUE) =>
            /\ \E k \in 1..Len(old) :
                 /\ old[k].scoreID = Val(app.currentEditID)
                 /\ new = RemoveAt(old, k)
            /\ app'.table =
                 [i \in 1..Len(new) |->
                    [scoreID |-> new[i].scoreID,
                     abba |-> computeAbbaForIndex(app.abbaStart, i - 1)]]
            /\ app'.teamAScore + app'.teamBScore = Len(new)
            /\ app'.teamAScore = CountTeam(new, app'.teamA)
            /\ app'.teamBScore = CountTeam(new, app'.teamB)

C22_DeleteRebuilds == [][C22_DeleteStep]_vars

----------------------------------------------------------------------------
(* The match clock: properties *)

StoredTimerKey(key) == loadFromStorage(store, key, Null)

\* the page was loaded with the clock running and its end still ahead
ReloadedRunning ==
  /\ last.op = "load"
  /\ timer.isRunning
  /\ ~IsNull(timer.endTime)
  /\ getTimeRemaining(Val(timer.endTime), now) > 0

\* C3: exactly one of endTime and remainingTimeMs is set, and a running clock
\* has its endTime set and its remainingTimeMs null, in every reachable state.
C3_TimerStateInvariant ==
  /\ IsNull(timer.endTime) # IsNull(timer.remainingTimeMs)
  /\ timer.isRunning => (~IsNull(timer.endTime) /\ IsNull(timer.remainingTimeMs))

\* C4: a page loaded with the clock stored as running and its end in the
\* future keeps that end and has the 1-second tick scheduled, so the clock
\* can expire on its own.
C4_ReloadResumesTicking ==
  ReloadedRunning =>
    /\ timer.timerInterval
    /\ timer.endTime = StoredTimerKey("timerEndTime")

\* C5: a clock started with D ms and stored, then loaded g < D ms later while
\* running, shows D - g: within a second of it, exactly it for a gap of whole
\* seconds, and less than D once a second has passed.
C5_ReloadKeepsElapsedTime ==
  (last.op = "load" /\ ~IsNull(started)
     /\ now - Val(started).at < Val(started).dur) =>
    LET g == now - Val(started).at
        D == Val(started).dur
        r == getRemainingSeconds(timer, now) * 1000
    IN /\ r > D - g - 1000
       /\ r < D - g + 1000
       /\ (g % 1000 = 0) => (r = D - g)
       /\ (g >= 1000) => (r < D)

\* C5 witness: 100 minutes, reloaded 30 s after start(): 99 min 30 s are left
C5_Witness ==
  /\ last.op = "load" /\ timer.isRunning /\ ~IsNull(started)
  /\ Val(started).dur = DEFAULT_TIMER_MINUTES * MinuteMs
  /\ now - Val(started).at = 30000
  /\ getRemainingSeconds(timer, now) = 99 * 60 + 30

\* C6: stop() of a running clock stores max(0, endTime - now) and clears
\* endTime, and remainingTimeMs is never negative, in memory or stored.
C6_NeverNegative ==
  /\ ~IsNull(timer.remainingTimeMs) => Val(timer.remainingTimeMs) >= 0
  /\ ~IsNull(StoredTimerKey("timerRemainingTime"))
       => Val(StoredTimerKey("timerRemainingTime")) >= 0

C6_StopStep ==
  (/\ timer.isRunning /\ ~timer'.isRunning /\ ~IsNull(timer.endTime)
   /\ last'.op \in {"toggle", "tick"}) =>
    /\ timer'.remainingTimeMs = Some(Max(0, Val(timer.endTime) - now))
    /\ IsNull(timer'.endTime)

C6_StopStoresClampedRemaining == []C6_NeverNegative /\ [][C6_StopStep]_vars

\* the clock is running and the time it runs to has come
EndReached ==
  timer.isRunning /\ ~IsNull(timer.endTime) /\ now >= Val(timer.endTime)

\* the clock is idle: not running, no end time, no tick scheduled
Idle == ~timer.isRunning /\ IsNull(timer.endTime) /\ ~timer.timerInterval

\* C23: with the 1-second tick run whenever it is scheduled, the clock does
\* not stay running with its end time behind it: left alone it becomes idle,
\* and whatever the user does it is again and again not in that state.
C23_ExpiresOnItsOwn == []<>(Idle \/ ~EndReached)

\* C24: when the 1-second tick finds the clock, started with time left, a
\* second or more past its end time, the display goes on showing the time
\* left, below zero and with its minus sign; it does not go to 00:00.
C24_OvertimeStep ==
  (/\ last'.op = "tick" /\ timer' # timer
   /\ EndReached
   /\ ~IsNull(started) /\ Val(started).dur > 0
   /\ getTimeRemaining(Val(timer.endTime), now) < 0) =>
    /\ ~IsNull(timer'.display)
    /\ Val(timer'.display).negative
    /\ Val(timer'.display) # TimeString(0)

C24_OvertimeIsShown == [][C24_OvertimeStep]_vars

\* the three timer keys, and what saveTimerState() writes under them for a
\* clock reset to this many minutes
TimerKeys == {"timerEndTime", "timerRunning", "timerRemainingTime"}

ResetWrites(minutes) ==
  [timerEndTime |-> Item(Null), timerRunning |-> Item(Some(FALSE)),
   timerRemainingTime |-> Item(Some(minutes * 60000))]

\* reset(minutes), whatever state the clock is in, leaves it idle with
\* remainingTimeMs = minutes * 60000 and no tick scheduled
ResetIdle ==
  LET minutes == Val(last'.ret).minutes
  IN /\ timer'.remainingTimeMs = Some(minutes * 60000)
     /\ IsNull(timer'.endTime)
     /\ ~timer'.isRunning
     /\ ~timer'.timerInterval

\* C25 as stated: reset(minutes), whatever state the clock is in, leaves it
\* idle with remainingTimeMs = minutes * 60000 and no tick scheduled, and after
\* it the three timer keys of the store hold that state.
C25_ResetStoredStep ==
  (last'.op = "reset" /\ HandleTimerReset) =>
    /\ ResetIdle
    /\ \A k \in TimerKeys : store'[k] = ResetWrites(Val(last'.ret).minutes)[k]

C25_ResetStep ==
  (last'.op = "reset" /\ HandleTimerReset) =>
    LET written == ResetWrites(Val(last'.ret).minutes)
        stopped == IF timer.isRunning /\ ~IsNull(timer.endTime)
                     THEN {Item(Some(Max(0, getTimeRemaining(Val(timer.endTime), now))))}
                     ELSE {}
    IN /\ ResetIdle
       /\ ~storeFull => \A k \in TimerKeys : store'[k] = written[k]
       /\ \A k \in TimerKeys \ {"timerRemainingTime"} : store'[k] \in {written[k], store[k]}
       /\ store'["timerRemainingTime"] \in
            {written["timerRemainingTime"], store["timerRemainingTime"]} \cup stopped
       /\ \A k \in StoreKeys \ (TimerKeys \cup {"lastSave"}) :
            store'[k] \in {store[k], Absent}

Clocks == {timer, secondsTimer}

\* every interval of a running clock that the browser still holds belongs to
\* a running clock, and there is at most one per clock
TicksInOrder ==
  \A c \in Clocks : c.scheduled <= 1 /\ (c.scheduled > 0 => c.isRunning)

\* a step in which a handler stops or resets a clock
StopOrReset ==
  \/ last'.op = "toggle" /\ HandleTimerToggle /\ timer.isRunning
  \/ last'.op = "reset" /\ HandleTimerReset
  \/ last'.op = "secToggle" /\ HandleSecTimerToggle /\ secondsTimer.isRunning
  \/ last'.op = "secReset" /\ HandleSecTimerReset

\* a step that changes the fields of a clock that is not running, other than
\* by a click or a reload
StaleTick ==
  \/ /\ TimerTick
     /\ ~timer.isRunning
     /\ timer' # timer
  \/ /\ SecondsTick
     /\ ~secondsTimer.isRunning
     /\ secondsTimer' # secondsTimer

\* C26: each clock has at most one interval scheduled at any time, and only
\* while it is running; after a stop() or a reset() of a clock none of its
\* intervals is left that could fire, and no tick changes a stopped clock,
\* however clicks on play/pause and reset and ticks of the two clocks interleave.
C26_TickStep ==
  /\ StopOrReset =>
       /\ (last'.op \in {"toggle", "reset"} => timer'.scheduled = 0)
       /\ (last'.op \in {"secToggle", "secReset"} => secondsTimer'.scheduled = 0)
  /\ ~StaleTick

C26_TicksAreCancelled == [](TicksInOrder) /\ [][C26_TickStep]_vars

\* C26 witness: both clocks were running with their one interval each, and the
\* seconds countdown has just been stopped by a click while the match clock
\* runs on.
C26_Witness ==
  /\ last.op = "secToggle"
  /\ ~secondsTimer.isRunning
  /\ secondsTimer.scheduled = 0
  /\ ~IsNull(secondsTimer.remainingTimeMs)
  /\ Val(secondsTimer.remainingTimeMs) \in 1..89999
  /\ timer.isRunning
  /\ timer.scheduled = 1

\* the store holds a paused clock: not running, no end time, and a remaining
\* time that is a number of ms, not negative
StoredPaused ==
  /\ StoredTimerKey("timerRunning") = Some(FALSE)
  /\ IsNull(StoredTimerKey("timerEndTime"))
  /\ ~IsNull(StoredTimerKey("timerRemainingTime"))
  /\ Val(StoredTimerKey("timerRemainingTime")) >= 0

\* C27: a reload with a paused clock stored, r >= 0 ms left (r = 0 after an
\* expiry included), gives an idle clock with remainingTimeMs = r; a reload
\* that gives the default duration without finding it stored found neither an
\* end time nor a remaining time stored.
C27_PausedReloadStep ==
  (last'.op = "load" /\ TimerPageLoad) =>
    /\ StoredPaused =>
         /\ timer'.remainingTimeMs = StoredTimerKey("timerRemainingTime")
         /\ ~timer'.isRunning
         /\ IsNull(timer'.endTime)
    /\ (/\ ~timer'.isRunning
        /\ timer'.remainingTimeMs = Some(DEFAULT_TIMER_MINUTES * MinuteMs)
        /\ StoredTimerKey("timerRemainingTime") # timer'.remainingTimeMs)
         => /\ IsNull(StoredTimerKey("timerEndTime"))
            /\ IsNull(StoredTimerKey("timerRemainingTime"))

C27_PausedReloadRestores == [][C27_PausedReloadStep]_vars

\* the store holds a running clock whose end time has passed
StoredExpired ==
  /\ StoredTimerKey("timerRunning") = Some(TRUE)
  /\ ~IsNull(StoredTimerKey("timerEndTime"))
  /\ Val(StoredTimerKey("timerEndTime")) < now

\* what saveTimerState() writes for the clock stopped at 0
ExpiredWrites ==
  [timerEndTime |-> Item(Null), timerRunning |-> Item(Some(FALSE)),
   timerRemainingTime |-> Item(Some(0))]

\* the clock as a reload leaves it after finding it expired: idle at 0, no
\* interval
ExpiredIdle ==
  /\ ~timer'.isRunning
  /\ IsNull(timer'.endTime)
  /\ timer'.remainingTimeMs = Some(0)
  /\ ~timer'.timerInterval
  /\ timer'.scheduled = 0

\* C28 as stated: a reload that finds a running clock stored whose end time
\* has passed leaves the clock idle (not running, no end time,
\* remainingTimeMs = 0, no interval), and after it the three timer keys of
\* the store hold that idle state.
C28_ExpiredStoredStep ==
  (last'.op = "load" /\ TimerPageLoad /\ StoredExpired) =>
    /\ ExpiredIdle
    /\ \A k \in TimerKeys : store'[k] = ExpiredWrites[k]

C28_ExpiredStep ==
  (last'.op = "load" /\ TimerPageLoad /\ StoredExpired) =>
    /\ ExpiredIdle
    /\ ~storeFull => \A k \in TimerKeys : store'[k] = ExpiredWrites[k]
    /\ \A k \in TimerKeys : store'[k] \in {ExpiredWrites[k], store[k]}

SecondsEndReached ==
  /\ secondsTimer.isRunning
  /\ ~IsNull(secondsTimer.endTime)
  /\ getTimeRemaining(Val(secondsTimer.endTime), now) <= 0

\* a tick of the seconds countdown at or after its end time stops it at 0
SecondsExpiryStep ==
  (SecondsTick /\ SecondsEndReached) =>
    /\ ~secondsTimer'.isRunning
    /\ secondsTimer'.remainingTimeMs = Some(0)
    /\ ~secondsTimer'.timerInterval
    /\ secondsTimer'.scheduled = 0

\* the remaining time of the seconds countdown is never negative
SecondsRemainingNotNegative ==
  IsNull(secondsTimer.remainingTimeMs) \/ Val(secondsTimer.remainingTimeMs) >= 0

\* the minutes and seconds it shows are never negative
SecondsDisplayNotNegative ==
  /\ ~IsNull(secondsTimer.display)
  /\ Val(secondsTimer.display).mins >= 0
  /\ Val(secondsTimer.display).secs >= 0

\* C29: a tick of the running seconds countdown at or after its end time stops
\* it with remainingTimeMs = 0 and no interval left; its remainingTimeMs and
\* the minutes and seconds it shows are not negative in any reachable state.
C29_SecondsExpiry ==
  /\ [](SecondsRemainingNotNegative /\ SecondsDisplayNotNegative)
  /\ [][SecondsExpiryStep]_vars

\* a click on play/pause that starts the seconds countdown
SecondsStart ==
  /\ last'.op = "secToggle"
  /\ HandleSecTimerToggle
  /\ ~secondsTimer.isRunning

\* C30 as stated: the seconds countdown, while running, has its endTime set
\* and its remainingTimeMs null; while idle its endTime is null; start() sets
\* the end time remainingTimeMs from now and clears remainingTimeMs.
C30_StartClearsStep ==
  SecondsStart =>
    /\ secondsTimer'.isRunning
    /\ ~IsNull(secondsTimer.remainingTimeMs) =>
         secondsTimer'.endTime = Some(now + Val(secondsTimer.remainingTimeMs))
    /\ IsNull(secondsTimer'.remainingTimeMs)

C30_StartKeepsStep ==
  SecondsStart =>
    /\ secondsTimer'.isRunning
    /\ ~IsNull(secondsTimer'.remainingTimeMs)
    /\ secondsTimer'.endTime = Some(now + Val(secondsTimer'.remainingTimeMs))
    /\ ~IsNull(secondsTimer.remainingTimeMs) =>
         secondsTimer'.remainingTimeMs = secondsTimer.remainingTimeMs

C31_RejectedStep ==
  ((last'.op = "saveRejected" /\ APP_SaveRejected)
     \/ (last'.op = "deleteRejected" /\ APP_DeleteRejected)) =>
    /\ IsNull(last'.ret)
    /\ dm'.scoreLogs = dm.scoreLogs
    /\ dm'.isDirty = dm.isDirty
    /\ dm'.gameState = dm.gameState
    /\ app'.teamAScore = app.teamAScore
    /\ app'.teamBScore = app.teamBScore
    /\ app'.table = app.table
    /\ store' = store

C31_RejectedRequestsMutateNothing == [][C31_RejectedStep]_vars

\* C31 witness: with a point in the log and the session clean, a delete
\* request for an id no entry has was refused.
C31_Witness ==
  /\ last = Called("deleteRejected", Null)
  /\ app.currentEditID = Some(NoSuchID)
  /\ Len(dm.scoreLogs) >= 1
  /\ ~dm.isDirty


-----------------------------------------------------------------------------
(* The export: handleSubmitScore *)

\* handleSubmitScore() comes back from its await and runs to its end
SubmitSettles == events' = events + 1 /\ last'.op = "submitDone"

\* C32: when the submission of a started export settles, sent or rejected,
\* the CSV text built from the log before the await is handed to the download,
\* and a rejected submission is reported by an error notification.
C32_ExportStep ==
  SubmitSettles =>
    /\ \E i \in 1..Len(exports) :
         /\ Len(exports[i]) >= 1
         /\ last'.download = Some(exports[i])
         /\ exports' = RemoveAt(exports, i)
    /\ last'.notice \in {"success", "error"}

C32_CsvAlwaysDownloaded == [][C32_ExportStep]_vars

\* a rejected submission has just been reported and its CSV downloaded
C32_Witness ==
  /\ last.op = "submitDone"
  /\ last.notice = "error"
  /\ ~IsNull(last.download) /\ Len(Val(last.download)) = 2
  /\ dm.scoreLogs = << >>


\* the row is the export of this log entry: an edit changes Score and Assist
\* only, so the other exported fields tell the point
RowOfPoint(row, e) == row.GameID = e.GameID /\ row.Time = e.Time /\ row.Team = e.Team

\* C37: when handleSubmitScore finishes, every point of the log, the points
\* added while the submission was pending included, has a row in the exported
\* CSV or is still in the log.
C37_FinishStep ==
  SubmitSettles =>
    \A j \in 1..Len(dm.scoreLogs) :
      \/ \E i \in 1..Len(Val(last'.download)) :
           RowOfPoint(Val(last'.download)[i], dm.scoreLogs[j])
      \/ \E i \in 1..Len(dm'.scoreLogs) : dm'.scoreLogs[i].scoreID = dm.scoreLogs[j].scoreID

C37_NoPointLostByExport == [][C37_FinishStep]_vars


-----------------------------------------------------------------------------
(* The roster at startup: loadTeams *)

\* the roster the store holds at this instant, expired ones not counted
StoredRoster(st, nw) ==
  LET stored == loadFromStorage(st, STORAGE_KEYS.TEAMS_DATA, Null)
  IN IF IsNull(stored) THEN {}
     ELSE IF nw > Val(stored).expiresAt THEN {} ELSE Val(stored).data

\* fetchTeams() has thrown and loadTeams() has run its catch block
FetchFailed == StepOf("loadTeams") /\ last'.ret = Some(FALSE)

\* C33: when the roster cannot be fetched at startup, the teams offered are
\* those of the cached roster, none if there is no cached roster, and the
\* log, the scores and the match clock are as they were.
C33_FetchFailedStep ==
  FetchFailed =>
    /\ app'.options = dm.teamsData
    /\ dm'.teamsData = dm.teamsData
    /\ dm'.scoreLogs = dm.scoreLogs /\ dm'.gameState = dm.gameState
    /\ dm'.isDirty = dm.isDirty
    /\ app'.teamAScore = app.teamAScore /\ app'.teamBScore = app.teamBScore
    /\ app'.table = app.table
    /\ timer' = timer /\ secondsTimer' = secondsTimer
    /\ \A k \in TimerKeys : store'[k] = store[k]

\* the cached roster is the one the store held, not expired, when the page
\* was loaded
C33_CacheStep ==
  (StepOf("pageLoad") /\ phase' = "loading") => dm'.teamsData = StoredRoster(store, now')

C33_FetchFailureFallsBack == [][C33_FetchFailedStep /\ C33_CacheStep]_vars

\* the fetch has failed on a page that restored a point: the cached roster is
\* offered and the point is still there
C33_Witness ==
  /\ last = Called("loadTeams", Some(FALSE))
  /\ app.options = TeamNames
  /\ Len(dm.scoreLogs) >= 1 /\ app.teamAScore + app.teamBScore >= 1


-----------------------------------------------------------------------------
(* The auto-save interval: liveness *)

\* the stored snapshot is the snapshot in memory and nothing waits to be saved
Persisted == ~dm.isDirty /\ StoredSnapshot = Some(dm.gameState)

\* a save that was refused leaves the dirty flag set
C34_FailedSaveStep ==
  (last'.op = "autoSave" /\ AutoSaveInterval /\ last'.ret = Some(FALSE)) => dm'.isDirty

\* C34: a failed write leaves the dirty flag set, and with the auto-save
\* interval firing, unsaved changes on a store that accepts writes are sooner
\* or later persisted as the snapshot in memory, unless the store refuses
\* writes again before.
C34_EventuallyPersisted ==
  /\ [][C34_FailedSaveStep]_vars
  /\ (dm.isDirty /\ ~storeFull) ~> (Persisted \/ storeFull)

\* the interval has saved a point on a store that had refused a write before
\* and dropped the roster for it
C34_Witness ==
  /\ last = Called("autoSave", Some(TRUE))
  /\ Persisted /\ ~storeFull
  /\ Len(dm.scoreLogs) >= 1
  /\ phase = "ready" /\ store[STORAGE_KEYS.TEAMS_DATA] = Absent

-----------------------------------------------------------------------------
(* The CSV functions: properties *)

\* C35: toCSVLine() puts a field in double quotes, its quotes doubled, exactly
\* when it holds a comma, a quote, a line feed or a carriage return, and
\* parseCSV() of the line gives back the one row of the original fields.
C35_CsvRoundTrip ==
  /\ last.op = "toCSVLine" =>
       LET first == last.ret.fields[1]
           quoted == <<"\"">> \o DoubleQuotes(first) \o <<"\"">>
       IN /\ NeedsQuotes(first) => SubSeq(last.ret.line, 1, Len(quoted)) = quoted
          /\ ~NeedsQuotes(first) => SubSeq(last.ret.line, 1, Len(first)) = first
  /\ last.op = "parseCSV" => last.ret.rows = <<last.ret.fields>>

\* C36: csvToTeamsMap() gives every team named in the header the cells that
\* are not blank of the team's own column, in the order of the rows, and gives
\* no other team.
C36_OwnColumn ==
  last.op = "csvToTeamsMap" =>
    LET rows == last.ret.rows
        teams == last.ret.teams
        named == {c \in 1..Len(rows[1]) : trim(rows[1][c]) # << >>}
    IN /\ DOMAIN teams = {trim(rows[1][c]) : c \in named}
       /\ \A c \in named :
            (\A c2 \in named : c2 > c => trim(rows[1][c2]) # trim(rows[1][c])) =>
              teams[trim(rows[1][c])] = PlayersOf(rows, c)


-----------------------------------------------------------------------------
(* The restored team names *)

\* loadTeams() runs on a page that has just restored the stored session
RosterAfterRestore ==
  /\ StepOf("loadTeams")
  /\ last \in {Called("init", Some(TRUE)), Called("pageLoad", Some(TRUE))}

\* C38: once a restored page has loaded its roster, the teams selected for
\* side A and side B are the teamAName and teamBName of the snapshot restored.
C38_RestoredNamesStep ==
  RosterAfterRestore =>
    /\ app'.teamA = dm.gameState.teamAName
    /\ app'.teamB = dm.gameState.teamBName

C38_RestoredNamesKept == [][C38_RestoredNamesStep]_vars


-----------------------------------------------------------------------------
(* The restore question *)

\* C39: when the page starts, the question whether to restore the previous
\* session is asked only if a snapshot was read from the store; a first load
\* with nothing stored does not ask.
C39_AskStep == (Startup /\ ~IsNull(last'.ret)) => ~IsNull(StoredSnapshot)

C39_AsksOnlyWithSnapshot == [][C39_AskStep]_vars


-----------------------------------------------------------------------------
(* clearAllData: properties *)

\* the match clock as a first load sets it: idle at the default duration
DefaultIdle(t) ==
  /\ ~t.isRunning /\ IsNull(t.endTime)
  /\ t.remainingTimeMs = Some(DEFAULT_TIMER_MINUTES * MinuteMs)

\* clearAllData() leaves no key of the application in the store
C40_ClearStep ==
  (last'.op = "clearAllData" /\ PM_ClearAllData) => \A k \in StoreKeys : store'[k] = Absent

\* the page loaded right after clearAllData() starts from the defaults
C40_ReloadStep ==
  (last = Called("clearAllData", Null) /\ last'.op = "reload" /\ AppReload) =>
    /\ DefaultIdle(timer')
    /\ dm'.gameState = DefaultState(now) /\ dm'.scoreLogs = << >>
    /\ dm'.teamsData = {} /\ ~dm'.isDirty

\* C40: clearAllData() removes every key the application persists, so that
\* the page loaded directly after it has the match clock idle at the default
\* duration and the session at its zero defaults.
C40_ClearAllLeavesNothing == [][C40_ClearStep /\ C40_ReloadStep]_vars

====
